---------------------------- MODULE Spec2Model ----------------------------
(***************************************************************************)
(* Model of the OpenBitLib tool-record pipeline: the record store of       *)
(* db_utils.py, the JSON mapper and the batch publisher of gentoolwiki.py. *)
(*                                                                         *)
(* Texts are sequences of one-character strings, so that the character     *)
(* level functions (sanitize_filename, the measurement parser, the integer *)
(* coercion pass) are computed as the code computes them.  Python values   *)
(* that are not texts are tagged sequences: None is <<"None">>, an int is  *)
(* <<"int">> followed by its canonical decimal digits.                     *)
(***************************************************************************)
EXTENDS Integers, Sequences, FiniteSets, TLC

(***************************************************************************)
(* Python values                                                           *)
(***************************************************************************)
None == <<"None">>

DigitChars == {"0", "1", "2", "3", "4", "5", "6", "7", "8", "9"}

LetterChars ==
    {"a", "b", "c", "d", "e", "f", "g", "h", "i", "j", "k", "l", "m",
     "n", "o", "p", "q", "r", "s", "t", "u", "v", "w", "x", "y", "z",
     "A", "B", "C", "D", "E", "F", "G", "H", "I", "J", "K", "L", "M",
     "N", "O", "P", "Q", "R", "S", "T", "U", "V", "W", "X", "Y", "Z"}

\* str.strip() and the regex class \s
WhitespaceChars == {" ", "\t", "\n", "\r"}

IsNone(v) == v = None

IsInt(v) == Len(v) > 0 /\ v[1] = "int"

IsText(v) == ~IsNone(v) /\ ~IsInt(v)

\* str.isdigit(): non-empty and every character a digit
IsDigit(s) == Len(s) > 0 /\ \A i \in 1..Len(s) : s[i] \in DigitChars

RECURSIVE StripZeros(_)
StripZeros(ds) ==
    IF Len(ds) > 1 /\ Head(ds) = "0" THEN StripZeros(Tail(ds)) ELSE ds

\* int(s) for a text s of the form digits or -digits
PyInt(s) ==
    IF Head(s) = "-"
    THEN IF StripZeros(Tail(s)) = <<"0">>
         THEN <<"int", "0">>
         ELSE <<"int", "-">> \o StripZeros(Tail(s))
    ELSE <<"int">> \o StripZeros(s)

\* Python truthiness of a value: None, "" and 0 are falsy
Truthy(v) == v # None /\ v # <<>> /\ v # <<"int", "0">>

RECURSIVE LStrip(_)
LStrip(s) ==
    IF s # <<>> /\ Head(s) \in WhitespaceChars THEN LStrip(Tail(s)) ELSE s

RECURSIVE RStrip(_)
RStrip(s) ==
    IF s # <<>> /\ s[Len(s)] \in WhitespaceChars
    THEN RStrip(SubSeq(s, 1, Len(s) - 1))
    ELSE s

PyStrip(s) == RStrip(LStrip(s))

(***************************************************************************)
(* dict helpers: a dict is a function from key strings to values           *)
(***************************************************************************)
EmptyDict == [k \in {} |-> None]

DictGet(d, k, default) == IF k \in DOMAIN d THEN d[k] ELSE default

\* d.update(e): the entries of e win
DictUpdate(d, e) == e @@ d

DictSet(d, k, v) == (k :> v) @@ d

(***************************************************************************)
(* sanitize_filename                                                       *)
(***************************************************************************)
SpecialChars == {"<", ">", ":", "\"", "/", "\\", "|", "?", "*", "\n", "\r"}

\* name.replace('"', "in")
RECURSIVE ReplaceQuote(_)
ReplaceQuote(s) ==
    IF s = <<>> THEN <<>>
    ELSE (IF Head(s) = "\"" THEN <<"i", "n">> ELSE <<Head(s)>>)
         \o ReplaceQuote(Tail(s))

RECURSIVE DropSpecial(_)
DropSpecial(s) ==
    IF s # <<>> /\ Head(s) \in SpecialChars THEN DropSpecial(Tail(s)) ELSE s

\* re.sub(r'[<>:"/\\|?*\n\r]+', "_", name): each run becomes one underscore
RECURSIVE SubSpecial(_)
SubSpecial(s) ==
    IF s = <<>> THEN <<>>
    ELSE IF Head(s) \in SpecialChars
         THEN <<"_">> \o SubSpecial(DropSpecial(s))
         ELSE <<Head(s)>> \o SubSpecial(Tail(s))

\* the outcome of a call: a value, or an exception that propagates
Raise == <<"raise">>

\* sanitize_filename without the final strip()
SanitizeUnstripped(name) ==
    IF ~Truthy(name) THEN <<>>
    ELSE IF IsInt(name) THEN Raise
    ELSE SubSpecial(ReplaceQuote(name))

sanitize_filename(name) ==
    IF ~Truthy(name) THEN <<>>
    ELSE IF IsInt(name) THEN Raise   \* int has no attribute 'replace'
    ELSE PyStrip(SubSpecial(ReplaceQuote(name)))

(***************************************************************************)
(* map_column_names                                                        *)
(***************************************************************************)
\* a mapping in which two external names share an internal name
ColumnMappingShared ==
    ("Diameter" :> "ToolDiameter") @@ ("Length" :> "ToolDiameter") @@
    ("CuttingEdgeHeight" :> "LOC") @@ ("Material" :> "ToolMaterial") @@
    ("ShankDiameter" :> "ToolShankSize")

ColumnMapping ==
    ("Diameter" :> "ToolDiameter") @@ ("Length" :> "OAL") @@
    ("CuttingEdgeHeight" :> "LOC") @@ ("Material" :> "ToolMaterial") @@
    ("ShankDiameter" :> "ToolShankSize")

map_column_names(param, direction) ==
    IF direction = "to_sqlite"
    THEN DictGet(ColumnMapping, param, param)
    ELSE IF \E k \in DOMAIN ColumnMapping : ColumnMapping[k] = param
         THEN CHOOSE k \in DOMAIN ColumnMapping : ColumnMapping[k] = param
         ELSE param

(***************************************************************************)
(* Measurement texts.  A float is held as an integer count of 1/200000, so *)
(* that halving a parsed decimal and the sums of the mapper are exact.     *)
(***************************************************************************)
DigitValue ==
    ("0" :> 0) @@ ("1" :> 1) @@ ("2" :> 2) @@ ("3" :> 3) @@ ("4" :> 4) @@
    ("5" :> 5) @@ ("6" :> 6) @@ ("7" :> 7) @@ ("8" :> 8) @@ ("9" :> 9)

DigitText == <<"0", "1", "2", "3", "4", "5", "6", "7", "8", "9">>

RECURSIVE DigitsToNat(_)
DigitsToNat(ds) ==
    IF ds = <<>> THEN 0
    ELSE 10 * DigitsToNat(SubSeq(ds, 1, Len(ds) - 1)) + DigitValue[ds[Len(ds)]]

RECURSIVE NatToText(_)
NatToText(n) ==
    IF n < 10 THEN <<DigitText[n + 1]>>
    ELSE NatToText(n \div 10) \o <<DigitText[(n % 10) + 1]>>

RECURSIVE Pow10(_)
Pow10(k) == IF k = 0 THEN 1 ELSE 10 * Pow10(k - 1)

RECURSIVE TakeWhile(_, _)
TakeWhile(s, set) ==
    IF s # <<>> /\ Head(s) \in set
    THEN <<Head(s)>> \o TakeWhile(Tail(s), set)
    ELSE <<>>

RECURSIVE DropWhile(_, _)
DropWhile(s, set) ==
    IF s # <<>> /\ Head(s) \in set THEN DropWhile(Tail(s), set) ELSE s

CountDots(s) == Cardinality({i \in 1..Len(s) : s[i] = "."})

\* float(s) accepts a run of digits and dots when it holds at most one dot
\* and at least one digit; anything else is a ValueError
FloatValid(s) == CountDots(s) <= 1 /\ \E i \in 1..Len(s) : s[i] \in DigitChars

\* float(s) for a valid run, in units of 1/200000 (five decimals are kept)
PyFloat(s) ==
    LET ip == TakeWhile(s, DigitChars)
        fp == TakeWhile(DropWhile(DropWhile(s, DigitChars), {"."}), DigitChars)
        f5 == SubSeq(fp \o <<"0", "0", "0", "0", "0">>, 1, 5)
    IN  2 * (DigitsToNat(ip) * Pow10(5) + DigitsToNat(f5))

UnitChars == LetterChars \cup {"\"", "'"}

InText == <<"i", "n">>

MmText == <<"m", "m">>

\* extract_numeric_value_with_unit: [raised, num, unit]
extract_numeric_value_with_unit(value) ==
    IF ~Truthy(value) \/ ~IsText(value)
    THEN [raised |-> FALSE, num |-> 0, unit |-> InText]
    ELSE LET s    == PyStrip(value)
             run  == TakeWhile(s, DigitChars \cup {"."})
             rest == DropWhile(DropWhile(s, DigitChars \cup {"."}),
                               WhitespaceChars)
             matched == run # <<>> /\ \A i \in 1..Len(rest) : rest[i] \in UnitChars
         IN  IF ~matched
             THEN [raised |-> FALSE, num |-> 0, unit |-> InText]
             ELSE IF ~FloatValid(run)
             THEN [raised |-> TRUE, num |-> 0, unit |-> InText]
             ELSE [raised |-> FALSE, num |-> PyFloat(run),
                   unit |-> IF rest = <<>> THEN InText ELSE rest]

\* round(n / d) to the nearest integer, ties to even (d > 0)
RoundDiv(n, d) ==
    LET q == n \div d
        r == n % d
    IN  IF 2 * r < d THEN q
        ELSE IF 2 * r > d THEN q + 1
        ELSE IF q % 2 = 0 THEN q ELSE q + 1

Abs(n) == IF n < 0 THEN 0 - n ELSE n

\* f"{x:.<places>f}" where u = round(x * 10^places) and neg tells x < 0
FormatFixed(u, places, neg) ==
    LET a  == Abs(u)
        ip == NatToText(a \div Pow10(places))
        fr == NatToText(Pow10(places) + (a % Pow10(places)))
    IN  (IF neg THEN <<"-">> ELSE <<>>) \o ip \o <<".">> \o Tail(fr)

convert_to_original_unit(value, unit) ==
    IF unit = MmText
    THEN FormatFixed(RoundDiv(value * 127, 1000), 3, value < 0) \o <<" ">> \o MmText
    ELSE IF unit = InText
    THEN FormatFixed(RoundDiv(value, 20), 4, value < 0) \o <<" ">> \o InText
    ELSE FormatFixed(RoundDiv(value, 20), 4, value < 0) \o <<" ">> \o unit

(***************************************************************************)
(* Tool rows: the columns of the Tool table (db_utils.Tool).  A JSON blob  *)
(* column is [kind, m]: kind "null" for NULL or empty text, "json" for a   *)
(* text that parses to the object m, "bad" for a text that is not JSON.    *)
(***************************************************************************)
NullBlob == [kind |-> "null", m |-> EmptyDict]

BadBlob == [kind |-> "bad", m |-> EmptyDict]

JsonBlob(m) == [kind |-> "json", m |-> m]

BlankRow(n) ==
    [ToolNumber |-> n, ToolName |-> None, ToolType |-> None, Shape |-> None,
     ToolShankSize |-> None, Flutes |-> None, OAL |-> None, LOC |-> None,
     ToolMaxRPM |-> None, ToolDiameter |-> None, Stickout |-> None,
     ToolMaterial |-> None, ToolCoating |-> None, PartNumber |-> None,
     ManufacturerName |-> None, ToolOrderURL |-> None, Materials |-> None,
     SuggestedRPM |-> None, SuggestedMaxDOC |-> None,
     AdditionalNotes |-> None, SuggestedFeedRate |-> None,
     ToolImageFileName |-> None, ImageHash |-> None,
     ShapeParameter |-> NullBlob, ShapeAttribute |-> NullBlob,
     Units |-> None]

\* Tool.__table__.columns.keys()
Columns == DOMAIN BlankRow(0)

\* json.loads(blob or "{}"): [raised, m]
LoadBlob(blob) ==
    IF blob.kind = "bad" THEN [raised |-> TRUE, m |-> EmptyDict]
    ELSE [raised |-> FALSE, m |-> blob.m]

(***************************************************************************)
(* Shape schemas: the FCShapes reference table and its lookup              *)
(***************************************************************************)
EndmillId == <<"E", "n", "d", "m", "i", "l", "l">>

BullnoseId == <<"B", "u", "l", "l", "n", "o", "s", "e">>

RadiusId == <<"R", "a", "d", "i", "u", "s">>

FcstdExt == <<".", "f", "c", "s", "t", "d">>

BullnoseFile == <<"b", "u", "l", "l", "n", "o", "s", "e">> \o FcstdExt

RadiusFile == <<"r", "a", "d", "i", "u", "s">> \o FcstdExt

RoundoverFile == <<"r", "o", "u", "n", "d", "o", "v", "e", "r">> \o FcstdExt

ShapeAttributeNames == <<"Chipload", "Flutes", "Material">>

FCShapes ==
    (EndmillId :>
        [ShapeName |-> <<"e", "n", "d", "m", "i", "l", "l">> \o FcstdExt,
         ShapeParameter |-> <<"CuttingEdgeHeight", "Diameter", "Length",
                              "ShankDiameter">>,
         ShapeAttribute |-> ShapeAttributeNames]) @@
    (BullnoseId :>
        [ShapeName |-> BullnoseFile,
         ShapeParameter |-> <<"CornerRadius", "CuttingEdgeHeight", "Diameter",
                              "Length", "ShankDiameter">>,
         ShapeAttribute |-> ShapeAttributeNames]) @@
    (RadiusId :>
        [ShapeName |-> RadiusFile,
         ShapeParameter |-> <<"CuttingEdgeHeight", "CuttingRadius", "Diameter",
                              "Length", "ShankDiameter">>,
         ShapeAttribute |-> ShapeAttributeNames])

\* the schema row of a shape identifier, or no row
fetch_shapes_by_type(shape_type) ==
    IF shape_type \in DOMAIN FCShapes
    THEN [found |-> TRUE, row |-> FCShapes[shape_type]]
    ELSE [found |-> FALSE, row |-> FCShapes[EndmillId]]

Range(seq) == {seq[i] : i \in 1..Len(seq)}

(***************************************************************************)
(* map_tool_to_json                                                        *)
(***************************************************************************)
V10 == "v1-0"

V11 == "v1-1"

V12 == "v1-2"

Versions == {V10, V11, V12}

ZeroText == <<"0">>

UnnamedTool == <<"U", "n", "n", "a", "m", "e", "d", " ", "T", "o", "o", "l">>

UnknownShape == <<"u", "n", "k", "n", "o", "w", "n">>

\* a degraded structure that forgets the Shape parameter
DegradedJsonNoShape(tool, shape_type) ==
    [version |-> 2,
     name |-> DictGet(tool, "ToolName", UnnamedTool),
     shape |-> shape_type,
     parameter |-> EmptyDict,
     attribute |-> EmptyDict]

\* the structure returned when the shape has no schema
DegradedJson(tool, shape_type) ==
    [version |-> 2,
     name |-> DictGet(tool, "ToolName", UnnamedTool),
     shape |-> shape_type,
     parameter |-> ("Shape" :> shape_type),
     attribute |-> EmptyDict]

\* an except clause that forgets ValueError lets the unit mismatch escape
FlatRadiusUncaught(tool, shape_parameters_values) ==
    LET d == extract_numeric_value_with_unit(DictGet(tool, "ToolDiameter", ZeroText))
        c == extract_numeric_value_with_unit(
                 DictGet(shape_parameters_values, "CornerRadius", ZeroText))
    IN  IF d.raised \/ c.raised \/ d.unit # c.unit
        THEN [ok |-> FALSE, raised |-> TRUE, text |-> <<>>]
        ELSE [ok |-> TRUE, raised |-> FALSE,
              text |-> convert_to_original_unit((d.num \div 2) - c.num, d.unit)]

\* the try block of the bullnose case: [ok, raised, text]; ok is FALSE when
\* a ValueError was raised inside it and caught by the except clause, which
\* lets no exception of the block escape (raised)
FlatRadius(tool, shape_parameters_values) ==
    LET d == extract_numeric_value_with_unit(DictGet(tool, "ToolDiameter", ZeroText))
        c == extract_numeric_value_with_unit(
                 DictGet(shape_parameters_values, "CornerRadius", ZeroText))
    IN  IF d.raised \/ c.raised \/ d.unit # c.unit
        THEN [ok |-> FALSE, raised |-> FALSE, text |-> <<>>]
        ELSE [ok |-> TRUE, raised |-> FALSE,
              text |-> convert_to_original_unit((d.num \div 2) - c.num, d.unit)]

\* the special case applied to every version
IsBullnoseAnyVersion(shape_name, version) == shape_name = BullnoseFile

\* the bullnose special case applies to the legacy version only
IsLegacyBullnose(shape_name, version) ==
    shape_name = BullnoseFile /\ version = V10

\* tool_data_dict.get(db_name, values.get(name, None))
PopulateValue(tool, values, name) ==
    DictGet(tool, map_column_names(name, "to_sqlite"), DictGet(values, name, None))

\* the parameter names the populate loop does not skip
PopulatedParams(shape_parameters_list, shape_name, version) ==
    {p \in Range(shape_parameters_list) :
        ~(p = "CornerRadius" /\ IsLegacyBullnose(shape_name, version))}

\* [raised, json]
map_tool_to_json(tool, version) ==
    LET shape_type == DictGet(tool, "Shape", UnknownShape)
        shape_data == fetch_shapes_by_type(shape_type)
        shape_name == shape_data.row.ShapeName
        pvals == LoadBlob(tool.ShapeParameter)
        avals == LoadBlob(tool.ShapeAttribute)
        flat  == FlatRadius(tool, pvals.m)
        derived == IF IsLegacyBullnose(shape_name, version) /\ flat.ok
                   THEN ("FlatRadius" :> flat.text)
                   ELSE EmptyDict
        params == [p \in PopulatedParams(shape_data.row.ShapeParameter,
                                         shape_name, version)
                      |-> PopulateValue(tool, pvals.m, p)]
        attrs == [a \in Range(shape_data.row.ShapeAttribute)
                      |-> PopulateValue(tool, avals.m, a)]
    IN  IF ~shape_data.found
        THEN [raised |-> FALSE, json |-> DegradedJson(tool, shape_type)]
        ELSE IF pvals.raised \/ avals.raised
                \/ (IsLegacyBullnose(shape_name, version) /\ flat.raised)
        THEN [raised |-> TRUE, json |-> EmptyDict]
        ELSE [raised |-> FALSE,
              json |-> [version |-> 2,
                        name |-> DictGet(tool, "ToolName", UnnamedTool),
                        shape |-> shape_name,
                        parameter |-> DictUpdate(derived, params),
                        attribute |-> attrs]]

(***************************************************************************)
(* generate_json_files                                                     *)
(***************************************************************************)
\* the test of convert_string_to_int on one string value
CoerceValue(v) ==
    IF IsText(v) /\ v # <<>>
       /\ (IsDigit(v) \/ (Head(v) = "-" /\ IsDigit(Tail(v))))
    THEN PyInt(v)
    ELSE v

CoerceDict(d) == [k \in DOMAIN d |-> CoerceValue(d[k])]

\* convert_string_to_int(tool_json): strings at the top level and in the
\* nested parameter and attribute objects; the version number is an int
convert_string_to_int(tool_json) ==
    [k \in DOMAIN tool_json |->
        IF k \in {"parameter", "attribute"} THEN CoerceDict(tool_json[k])
        ELSE IF k = "version" THEN tool_json[k]
        ELSE CoerceValue(tool_json[k])]

ImperialText == <<"I", "m", "p", "e", "r", "i", "a", "l">>

MetricText == <<"M", "e", "t", "r", "i", "c">>

FctbExt == <<".", "f", "c", "t", "b">>

\* the version-specific reshaping of one mapped tool
ReshapeForVersion(tool_json, tool, version) ==
    IF version = V10
    THEN IF tool_json.shape = RadiusFile
         THEN [tool_json EXCEPT !.shape = RoundoverFile]
         ELSE tool_json
    ELSE LET merged == [tool_json EXCEPT
                           !.parameter = DictUpdate(tool_json.parameter,
                                                    tool_json.attribute),
                           !.attribute = EmptyDict]
             typed  == DictSet(merged, "shape-type",
                               DictGet(tool, "Shape", UnknownShape))
             units  == IF "Units" \in Columns THEN DictGet(tool, "Units", None)
                       ELSE None
         IN  IF version = V12
             THEN [typed EXCEPT !.parameter =
                      DictSet(typed.parameter, "Units",
                              IF Truthy(units) THEN units ELSE ImperialText)]
             ELSE typed

\* the file name the loop body computes from the coerced structure
OutputName(coerced_json) == sanitize_filename(coerced_json.name)

\* the write at the end of the loop body: the id field of the merged
\* versions and the file, [raised, path, json]
WriteFile(coerced_json, sanitized_tool_name, version) ==
    IF sanitized_tool_name = Raise
    THEN [raised |-> TRUE, path |-> <<>>, json |-> EmptyDict]
    ELSE [raised |-> FALSE,
          path |-> sanitized_tool_name \o FctbExt,
          json |-> IF version # V10
                   THEN DictSet(coerced_json, "id", sanitized_tool_name)
                   ELSE coerced_json]

\* the loop body after the coercion pass
NameAndWrite(coerced_json, version) ==
    WriteFile(coerced_json, OutputName(coerced_json), version)

\* the loop body after map_tool_to_json returned or raised
ShapeAndWrite(mapped_json, tool, version) ==
    IF mapped_json.raised
    THEN [raised |-> TRUE, path |-> <<>>, json |-> EmptyDict]
    ELSE NameAndWrite(convert_string_to_int(
                          ReshapeForVersion(mapped_json.json, tool, version)),
                      version)

\* one iteration of the loop of generate_json_files:
\* [raised, path, json] where json is the content written to path
GenerateOne(tool, version) ==
    ShapeAndWrite(map_tool_to_json(tool, version), tool, version)

\* the outcome of the loop with the path of its first file put in front
PrependWritten(path, rest) ==
    [rest EXCEPT !.written = <<path>> \o rest.written]

\* generate_json_files(tool_data, columns, dir, version) on the directory
\* content dir: [raised, dir, written]; the files of the tools before the
\* one that raised stay written
RECURSIVE generate_json_files(_, _, _)
RECURSIVE ContinueFiles(_, _, _, _)
ContinueFiles(one, tool_data, dir, version) ==
    IF one.raised
    THEN [raised |-> TRUE, dir |-> dir, written |-> <<>>]
    ELSE PrependWritten(one.path,
             generate_json_files(Tail(tool_data),
                                 DictSet(dir, one.path, one.json), version))

generate_json_files(tool_data, dir, version) ==
    IF tool_data = <<>>
    THEN [raised |-> FALSE, dir |-> dir, written |-> <<>>]
    ELSE ContinueFiles(GenerateOne(Head(tool_data), version),
                       tool_data, dir, version)

(***************************************************************************)
(* State                                                                   *)
(***************************************************************************)
VARIABLES
    tools,      \* table tools: ToolNumber -> row
    fctb,       \* the bits directory of each version: path -> file content
    ver,        \* the version argument of the mapper calls
    mapped,     \* outcome of the last map_tool_to_json call
    gen,        \* outcome of the last generate_json_files call
    images,     \* bit_images directory: ToolNumber -> content hash or None
    library,    \* the library file of each version: set of [nr, path]
    pc,         \* position of main(): idle, loop, done or raised
    queue,      \* tool_data fetched by main()
    idx,        \* number of tools main() has processed
    log,        \* what main() did for each processed tool
    result,     \* the value main() returned
    tool_tbl,   \* table tool: tool_no -> row
    tool_props, \* table tool_properties: tool_no -> row
    call,       \* the last call on the record store and how it ended
    config_max_rpm, \* machine_settings.max_rpm of the configuration
    tool_table, \* outcome of the last generate_tool_table call
    page,       \* outcome of the last generate_wiki_page call
    arg,        \* the argument of the last call of a text utility
    out         \* what that call returned

vars == <<tools, fctb, ver, mapped, gen, images, library, pc, queue, idx, log,
          result, tool_tbl, tool_props, call, config_max_rpm, tool_table,
          page, arg, out>>

storeVars == <<tool_tbl, tool_props, call>>

publishVars == <<images, library, pc, queue, idx, log, result>>

renderVars == <<config_max_rpm, tool_table, page, arg, out>>

NoCall == [called |-> FALSE]

\* the default of machine_settings.max_rpm
DefaultMaxRpm == <<"int", "2", "4", "0", "0", "0">>

\* no renderer and no text utility has been called
RenderIdle ==
    /\ config_max_rpm = DefaultMaxRpm
    /\ tool_table = NoCall
    /\ page = NoCall
    /\ arg = None
    /\ out = NoCall

EmptyDirs == [v \in Versions |-> EmptyDict]

\* fetch_tool_data(): the rows in ToolNumber order
RECURSIVE RowsOf(_, _)
RowsOf(table, keys) ==
    IF keys = {} THEN <<>>
    ELSE LET k == CHOOSE x \in keys : \A y \in keys : x <= y
         IN  <<table[k]>> \o RowsOf(table, keys \ {k})

fetch_tool_data(table) == RowsOf(table, DOMAIN table)

\* a float or None
FloatNone == [isnone |-> TRUE, num |-> 0]

FloatOf(n) == [isnone |-> FALSE, num |-> n]

\* the rows insert() adds to tool and tool_properties for a tools row
ToolModelRow(no, diameter, remark) ==
    [tool_no |-> no, diameter |-> diameter, remark |-> remark,
     tool_table_id |-> 1]

ToolPropertiesRow(no, max_rpm) ==
    [tool_no |-> no, max_rpm |-> max_rpm, tool_table_id |-> 1]

(***************************************************************************)
(* The mapper applied to one stored record                                 *)
(***************************************************************************)
BitText == <<"B", "i", "t">>

MapNames ==
    {BitText, <<"1", "2", "3">>, <<"0">>, <<>>, None,
     <<"1", "/", "4", "\"", " ">>}

MapShapes ==
    {EndmillId, BullnoseId, RadiusId, None,
     <<"u", "n", "k", "n", "o", "w", "n", "_", "s", "h", "a", "p", "e">>}

OneInch == <<"1", ".", "0", " ", "i", "n">>

TenMm == <<"1", "0", " ", "m", "m">>

QuarterInch == <<"0", ".", "2", "5", " ", "i", "n">>

TwoMm == <<"2", " ", "m", "m">>

FractionInch == <<"1", "/", "4", " ", "i", "n">>

MapDiameters ==
    {OneInch, TenMm, None, <<"1", ".", "2", ".", "3">>, <<"0", ".", "5">>,
     FractionInch}

MapParamBlobs ==
    {NullBlob, BadBlob,
     JsonBlob("CornerRadius" :> QuarterInch),
     JsonBlob("CornerRadius" :> TwoMm),
     JsonBlob(("CornerRadius" :> QuarterInch) @@
              ("Diameter" :> <<"9", " ", "i", "n">>))}

MapAttrBlobs ==
    {NullBlob,
     JsonBlob(("Chipload" :> <<"0", ".", "0", "1">>) @@
              ("Flutes" :> <<"3">>) @@ ("Material" :> <<"H", "S", "S">>))}

MapRows ==
    {[BlankRow(1) EXCEPT !.ToolName = nm, !.Shape = sh, !.ToolDiameter = d,
                         !.ShapeParameter = bp, !.ShapeAttribute = ba,
                         !.Flutes = fl, !.Units = u,
                         !.ToolMaxRPM = <<"int", "0">>] :
        nm \in MapNames, sh \in MapShapes, d \in MapDiameters,
        bp \in MapParamBlobs, ba \in MapAttrBlobs,
        fl \in {None, <<"2">>}, u \in {None, MetricText}}

InitMap ==
    /\ RenderIdle
    /\ \E r \in MapRows : tools = (1 :> r)
    /\ fctb = EmptyDirs
    /\ ver \in Versions
    /\ mapped = NoCall
    /\ gen = NoCall
    /\ images = (1 :> None)
    /\ library = [v \in Versions |-> {}]
    /\ pc = "idle"
    /\ queue = <<>>
    /\ idx = 0
    /\ log = <<>>
    /\ result = [status |-> "none"]
    /\ tool_tbl = (1 :> ToolModelRow(1, FloatNone, tools[1].ToolName))
    /\ tool_props = (1 :> ToolPropertiesRow(1, FloatOf(0)))
    /\ call = NoCall

\* map_tool_to_json(tool, columns, version) on a stored record
MapCall ==
    /\ \E n \in DOMAIN tools :
          mapped' = [called |-> TRUE, tool |-> n,
                     out |-> map_tool_to_json(tools[n], ver)]
    /\ UNCHANGED <<tools, fctb, ver, gen>>
    /\ UNCHANGED publishVars
    /\ UNCHANGED storeVars
    /\ UNCHANGED renderVars

\* generate_json_files(fetch_tool_data(), columns, bits_dir, version)
GenCall ==
    /\ LET r == generate_json_files(fetch_tool_data(tools), fctb[ver], ver)
       IN  /\ fctb' = [fctb EXCEPT ![ver] = r.dir]
           /\ gen' = [called |-> TRUE, raised |-> r.raised,
                      written |-> r.written]
    /\ UNCHANGED <<tools, ver, mapped>>
    /\ UNCHANGED publishVars
    /\ UNCHANGED storeVars
    /\ UNCHANGED renderVars

NextMap == MapCall \/ GenCall

SpecMap == InitMap /\ [][NextMap]_vars

(***************************************************************************)
(* Properties of the mapper (checked under SpecMap)                        *)
(***************************************************************************)
\* the record a mapper call was applied to
MappedTool == tools[mapped.tool]

\* the one stored record of SpecMap and the file the last call wrote for it
TheTool == tools[1]

GenWrote == gen.called /\ ~gen.raised

TheFile == fctb[ver][gen.written[1]]

Registered(tool) == tool.Shape \in DOMAIN FCShapes

SchemaOf(tool) == FCShapes[tool.Shape]

BlobsParse(tool) ==
    tool.ShapeParameter.kind # "bad" /\ tool.ShapeAttribute.kind # "bad"

\* a text the measurement pattern matches and float() accepts
ParsesAsMeasurement(v) ==
    /\ IsText(v) /\ Truthy(v)
    /\ LET s    == PyStrip(v)
           run  == TakeWhile(s, DigitChars \cup {"."})
           rest == DropWhile(DropWhile(s, DigitChars \cup {"."}), WhitespaceChars)
       IN  /\ run # <<>>
           /\ \A i \in 1..Len(rest) : rest[i] \in UnitChars
           /\ FloatValid(run)

CornerRadiusOf(tool) == DictGet(tool.ShapeParameter.m, "CornerRadius", None)

\* a bullnose record whose diameter and corner radius both parse
BullnoseParsed(tool) ==
    /\ Registered(tool) /\ SchemaOf(tool).ShapeName = BullnoseFile
    /\ BlobsParse(tool)
    /\ ParsesAsMeasurement(tool.ToolDiameter)
    /\ ParsesAsMeasurement(CornerRadiusOf(tool))

UnitOf(v) == extract_numeric_value_with_unit(v).unit

NumOf(v) == extract_numeric_value_with_unit(v).num

SameUnit(tool) == UnitOf(tool.ToolDiameter) = UnitOf(CornerRadiusOf(tool))

\* C1: for a record whose Shape has no registered schema, map_tool_to_json
\* returns, for every version and without raising, the degraded structure
\* {version 2, name ToolName, shape raw id, parameter {Shape: raw id},
\* attribute {}}.
C1_DegradedStructure ==
    (mapped.called /\ ~Registered(MappedTool)) =>
        /\ ~mapped.out.raised
        /\ DOMAIN mapped.out.json =
              {"version", "name", "shape", "parameter", "attribute"}
        /\ mapped.out.json.version = 2
        /\ mapped.out.json.name = MappedTool.ToolName
        /\ mapped.out.json.shape = MappedTool.Shape
        /\ mapped.out.json.parameter = ("Shape" :> MappedTool.Shape)
        /\ mapped.out.json.attribute = EmptyDict

C1_Witness ==
    /\ mapped.called /\ ~Registered(MappedTool)
    /\ MappedTool.Shape # None
    /\ MappedTool.ShapeParameter.kind = "bad"
    /\ ver = V12

\* the value the claim C2 expects for a schema name: the direct column when
\* it holds a value, otherwise the blob entry
C2_Expected(tool, values, name) ==
    LET col == map_column_names(name, "to_sqlite")
    IN  IF col \in DOMAIN tool /\ tool[col] # None
        THEN tool[col]
        ELSE DictGet(values, name, None)

C2_Suppressed(tool, version) ==
    IF SchemaOf(tool).ShapeName = BullnoseFile /\ version = V10
    THEN {"CornerRadius"} ELSE {}

\* C2: for a record with a resolved shape the parameter keys are exactly the
\* schema's parameter names (except a suppressed corner radius, and apart
\* from the derived FlatRadius that replaces it), each value
\* is the direct column's when it holds one (an absent or null column falls
\* back) and otherwise the ShapeParameter blob's entry; attributes likewise.
C2_ColumnElseBlob ==
    (mapped.called /\ Registered(MappedTool) /\ ~mapped.out.raised) =>
        LET t == MappedTool
            j == mapped.out.json
            named == Range(SchemaOf(t).ShapeParameter) \ C2_Suppressed(t, ver)
        IN  /\ (DOMAIN j.parameter) \ {"FlatRadius"} = named
            /\ \A p \in named :
                  j.parameter[p] = C2_Expected(t, t.ShapeParameter.m, p)
            /\ DOMAIN j.attribute = Range(SchemaOf(t).ShapeAttribute)
            /\ \A a \in DOMAIN j.attribute :
                  j.attribute[a] = C2_Expected(t, t.ShapeAttribute.m, a)

C4_Matched(tool) ==
    [tool EXCEPT !.ShapeParameter.m =
        DictSet(@, "CornerRadius", ZeroText \o UnitOf(tool.ToolDiameter))]

Restrict(d, keys) == [k \in (DOMAIN d) \cap keys |-> d[k]]

\* C4: when the diameter and the corner radius of a bullnose record carry
\* different units, map_tool_to_json does not raise, its output has no
\* FlatRadius, and every other schema parameter and attribute is populated
\* exactly as it would be without the mismatch.
C4_MismatchOmitsFlatRadius ==
    (mapped.called /\ BullnoseParsed(MappedTool) /\ ~SameUnit(MappedTool)) =>
        LET other == Range(SchemaOf(MappedTool).ShapeParameter) \ {"CornerRadius"}
            ref   == map_tool_to_json(C4_Matched(MappedTool), ver).json
        IN  /\ ~mapped.out.raised
            /\ "FlatRadius" \notin DOMAIN mapped.out.json.parameter
            /\ other \subseteq DOMAIN mapped.out.json.parameter
            /\ Restrict(mapped.out.json.parameter, other) =
                  Restrict(ref.parameter, other)
            /\ \A p \in other :
                  mapped.out.json.parameter[p] =
                     PopulateValue(MappedTool, MappedTool.ShapeParameter.m, p)
            /\ mapped.out.json.attribute = ref.attribute
            /\ DOMAIN mapped.out.json.attribute =
                  Range(SchemaOf(MappedTool).ShapeAttribute)

C4_Witness ==
    /\ mapped.called /\ ver = V10
    /\ BullnoseParsed(MappedTool) /\ ~SameUnit(MappedTool)
    /\ MappedTool.ToolDiameter = OneInch
    /\ ~mapped.out.raised

\* a registered bullnose record whose blobs load
C23_Bullnose(tool) ==
    /\ Registered(tool) /\ SchemaOf(tool).ShapeName = BullnoseFile
    /\ BlobsParse(tool)

\* C23: when the diameter text or the corner-radius text of a bullnose record
\* cannot be parsed, the mapper emits no FlatRadius computed from a
\* substituted 0.0.
C23_UnparseableNotZero ==
    (mapped.called /\ ~mapped.out.raised /\ C23_Bullnose(MappedTool)
        /\ (\/ (MappedTool.ToolDiameter # None
                  /\ ~ParsesAsMeasurement(MappedTool.ToolDiameter))
            \/ ("CornerRadius" \in DOMAIN MappedTool.ShapeParameter.m
                  /\ ~ParsesAsMeasurement(CornerRadiusOf(MappedTool))))) =>
        "FlatRadius" \notin DOMAIN mapped.out.json.parameter

\* C24: for a bullnose record whose diameter and corner radius both carry
\* unit u, for u = in and for u = mm, the FlatRadius text the mapper emits
\* denotes Diameter/2 - CornerRadius in unit u (10 mm and 2 mm give 3 mm).
C24_FlatRadiusInUnit ==
    (mapped.called /\ ver = V10 /\ BullnoseParsed(MappedTool)
        /\ SameUnit(MappedTool)
        /\ UnitOf(MappedTool.ToolDiameter) \in {InText, MmText}) =>
        /\ ~mapped.out.raised
        /\ "FlatRadius" \in DOMAIN mapped.out.json.parameter
        /\ UnitOf(mapped.out.json.parameter["FlatRadius"])
              = UnitOf(MappedTool.ToolDiameter)
        /\ NumOf(mapped.out.json.parameter["FlatRadius"])
              = (NumOf(MappedTool.ToolDiameter) \div 2)
                   - NumOf(CornerRadiusOf(MappedTool))

\* the value the integer coercion pass leaves for a stored value
C5_Written(v) == CoerceValue(v)

\* C5: for every non-legacy version the JSON written for a record has an
\* empty attribute map, a parameter map holding every schema attribute key
\* with the attribute's value, a shape-type equal to the record's Shape, an
\* id equal to sanitize_filename(ToolName), and for v1-2 parameter.Units
\* equal to the record's Units or "Imperial" when it has none.
C5_MergedLayout ==
    (GenWrote /\ ver # V10) =>
        /\ TheFile.attribute = EmptyDict
        /\ Registered(TheTool) =>
              \A a \in Range(SchemaOf(TheTool).ShapeAttribute) :
                 /\ a \in DOMAIN TheFile.parameter
                 /\ TheFile.parameter[a] =
                       C5_Written(PopulateValue(TheTool,
                                                TheTool.ShapeAttribute.m, a))
        /\ TheFile["shape-type"] = C5_Written(TheTool.Shape)
        /\ TheFile.id = sanitize_filename(TheTool.ToolName)
        /\ ver = V12 =>
              TheFile.parameter["Units"] =
                 (IF Truthy(TheTool.Units) THEN TheTool.Units ELSE ImperialText)

\* C6: for every record, a ToolName of digits only or an empty one included,
\* generate_json_files writes exactly one file, named
\* sanitize_filename(ToolName) followed by ".fctb", and does not raise.
C6_OneFilePerRecord ==
    (gen.called /\ BlobsParse(TheTool)) =>
        /\ ~gen.raised
        /\ gen.written = <<sanitize_filename(TheTool.ToolName) \o FctbExt>>

\* the record with each blob that is not JSON replaced by an empty one
C12_AsEmpty(tool) ==
    [tool EXCEPT
        !.ShapeParameter = IF @.kind = "bad" THEN NullBlob ELSE @,
        !.ShapeAttribute = IF @.kind = "bad" THEN NullBlob ELSE @]

\* C12: when a record's ShapeParameter or ShapeAttribute text is not valid
\* JSON, map_tool_to_json treats it as an empty object: it returns normally,
\* with the output it gives for an empty blob.
C12_BadBlobAsEmpty ==
    (mapped.called /\ C12_AsEmpty(MappedTool) # MappedTool) =>
        /\ ~mapped.out.raised
        /\ mapped.out.json = map_tool_to_json(C12_AsEmpty(MappedTool), ver).json

(***************************************************************************)
(* main(): the batch publisher                                             *)
(***************************************************************************)
\* the largest ToolNumber of the published store
MaxTools == 2

ToolNumbers == 1..MaxTools

\* config["freecad"]["versions"]
ConfigVersions == <<V10, V11, V12>>

\* a call of the wiki transport returns a success response, returns an error
\* response, or raises (connection error, missing csrftoken, non-JSON body)
UploadOutcomes == {"ok", "error", "raise"}

HashA == <<"h", "a">>

NoResult == [status |-> "none"]

\* the outcome of the version loop with one written file added
AddFile(version, path, rest) ==
    [rest EXCEPT !.files = {<<version, path>>} \cup rest.files]

\* the loop over the configured versions in main():
\* [raised, dirs, files] with files the <<version, path>> pairs written
RECURSIVE GenerateVersions(_, _, _)
RECURSIVE ContinueVersions(_, _, _, _)
ContinueVersions(r, tool, dirs, versions) ==
    IF r.raised
    THEN [raised |-> TRUE, dirs |-> dirs, files |-> {}]
    ELSE AddFile(Head(versions), r.written[1],
             GenerateVersions(tool, [dirs EXCEPT ![Head(versions)] = r.dir],
                              Tail(versions)))

GenerateVersions(tool, dirs, versions) ==
    IF versions = <<>>
    THEN [raised |-> FALSE, dirs |-> dirs, files |-> {}]
    ELSE ContinueVersions(
             generate_json_files(<<tool>>, dirs[Head(versions)], Head(versions)),
             tool, dirs, versions)

\* int(value) succeeds on an int and on a text holding an integer
IntConvertible(v) ==
    IsInt(v) \/ (IsText(v) /\ IsInt(CoerceValue(PyStrip(v))))

\* generate_wiki_page raises on a ShapeParameter text that is not JSON and
\* on a ToolMaxRPM that int() rejects
generate_wiki_page_raises(tool) ==
    \/ LoadBlob(tool.ShapeParameter).raised
    \/ ~IntConvertible(tool.ToolMaxRPM)

\* fetch_image_hash(tool_number)
fetch_image_hash(table, n) ==
    IF n \in DOMAIN table THEN table[n].ImageHash ELSE None

\* update_image_hash(tool_number, image_hash)
update_image_hash(table, n, h) ==
    IF n \in DOMAIN table THEN [table EXCEPT ![n].ImageHash = h] ELSE table

\* generate_tools_json: the library entries of the named tools
LibraryEntries(table) ==
    {[nr |-> n, path |-> sanitize_filename(table[n].ToolName) \o FctbExt] :
        n \in {m \in DOMAIN table : Truthy(table[m].ToolName)}}

\* main(tool_number=sel): log in and fetch the tool data
MainStart ==
    /\ pc \in {"idle", "done", "raised"}
    /\ \E login \in BOOLEAN, sel \in {0} \cup DOMAIN tools :
          /\ pc' = IF login THEN "loop" ELSE "raised"
          /\ queue' = IF ~login THEN <<>>
                      ELSE IF sel = 0 THEN fetch_tool_data(tools)
                      ELSE <<tools[sel]>>
    /\ idx' = 0
    /\ log' = <<>>
    /\ result' = NoResult
    /\ UNCHANGED <<tools, fctb, ver, mapped, gen, images, library>>
    /\ UNCHANGED storeVars
    /\ UNCHANGED renderVars

\* what main() logs for a tool
LogEntry(n, g, wiki, image) ==
    [tool |-> n, files |-> g.files, wiki |-> wiki, image |-> image]

\* the body of the loop of main() for one tool: g is the outcome of the
\* version loop, w and i are the outcomes of the wiki-page and image uploads
PublishTool(tool, n, g, w, i) ==
    /\ fctb' = g.dirs
    /\ IF g.raised \/ generate_wiki_page_raises(tool)
       THEN /\ tools' = tools
            /\ log' = Append(log, LogEntry(n, g, "none", "none"))
            /\ pc' = "raised"
            /\ idx' = idx
       ELSE IF w = "raise"
       THEN /\ tools' = tools
            /\ log' = Append(log, LogEntry(n, g, w, "none"))
            /\ pc' = "raised"
            /\ idx' = idx
       ELSE IF images[n] = None
       THEN /\ tools' = tools
            /\ log' = Append(log, LogEntry(n, g, w, "nofile"))
            /\ pc' = "loop"
            /\ idx' = idx + 1
       ELSE IF images[n] = fetch_image_hash(tools, n)
       THEN /\ tools' = update_image_hash(tools, n, images[n])
            /\ log' = Append(log, LogEntry(n, g, w, "unchanged"))
            /\ pc' = "loop"
            /\ idx' = idx + 1
       ELSE /\ tools' = update_image_hash(tools, n, images[n])
            /\ log' = Append(log, LogEntry(n, g, w, i))
            /\ pc' = IF i = "raise" THEN "raised" ELSE "loop"
            /\ idx' = IF i = "raise" THEN idx ELSE idx + 1

\* one iteration of the loop of main() over tool_data
MainTool ==
    /\ pc = "loop"
    /\ idx < Len(queue)
    /\ \E w \in UploadOutcomes, i \in UploadOutcomes :
          PublishTool(queue[idx + 1], queue[idx + 1].ToolNumber,
                      GenerateVersions(queue[idx + 1], fctb, ConfigVersions),
                      w, i)
    /\ UNCHANGED <<ver, mapped, gen, images, library, queue, result>>
    /\ UNCHANGED storeVars
    /\ UNCHANGED renderVars

\* the status main() returns after the loop
ReturnStatus(entries) == "success"

\* after the loop: index page, library files, manifest, tool table, return
MainFinish ==
    /\ pc = "loop"
    /\ idx = Len(queue)
    /\ \E w \in UploadOutcomes :
          IF w = "raise"
          THEN /\ pc' = "raised"
               /\ UNCHANGED <<library, result>>
          ELSE /\ pc' = "done"
               /\ library' = [v \in Versions |-> LibraryEntries(tools)]
               /\ result' = [status |-> ReturnStatus(log)]
    /\ UNCHANGED <<tools, fctb, ver, mapped, gen, images, queue, idx, log>>
    /\ UNCHANGED storeVars
    /\ UNCHANGED renderVars

VeeText == <<"V", "e", "e">>

PubNames == {BitText, VeeText}

PubRow(n, nm, h) ==
    [BlankRow(n) EXCEPT !.ToolName = nm, !.Shape = EndmillId,
                        !.ToolDiameter = OneInch, !.ImageHash = h,
                        !.ToolMaxRPM = <<"int", "0">>]

InitPublish ==
    /\ RenderIdle
    /\ \E S \in SUBSET ToolNumbers :
          /\ \E nm \in [S -> PubNames], h \in [S -> {None, HashA}] :
                tools = [n \in S |-> PubRow(n, nm[n], h[n])]
          /\ images \in [S -> {None, HashA}]
    /\ fctb = EmptyDirs
    /\ ver = V10
    /\ mapped = NoCall
    /\ gen = NoCall
    /\ library = [v \in Versions |-> {}]
    /\ pc = "idle"
    /\ queue = <<>>
    /\ idx = 0
    /\ log = <<>>
    /\ result = NoResult
    /\ tool_tbl = [n \in DOMAIN tools |->
                      ToolModelRow(n, FloatOf(200000), tools[n].ToolName)]
    /\ tool_props = [n \in DOMAIN tools |-> ToolPropertiesRow(n, FloatOf(0))]
    /\ call = NoCall

NextPublish == MainStart \/ MainTool \/ MainFinish

SpecPublish == InitPublish /\ [][NextPublish]_vars

(***************************************************************************)
(* Properties of the batch publisher (checked under SpecPublish)           *)
(***************************************************************************)
\* the wiki-page upload or the image upload of a processed tool failed
UploadFailed(entry) ==
    entry.wiki \in {"error", "raise"} \/ entry.image \in {"error", "raise"}

\* main() raised inside its loop over tool_data
RaisedInLoop == pc = "raised" /\ idx < Len(queue)

\* C7: the .fctb file of a record is keyed by its ToolNumber: two records
\* with different ToolNumbers never write to the same .fctb path, neither in
\* the bits directories nor in the library files.
C7_FilesKeyedByToolNumber ==
    /\ \A i, j \in 1..Len(log) :
          log[i].tool # log[j].tool => log[i].files \cap log[j].files = {}
    /\ \A v \in Versions : \A a, b \in library[v] :
          a.nr # b.nr => a.path # b.path

\* C9: in a batch publish, when the wiki-page upload or the image upload of
\* a tool fails, main does not raise and every later tool is still processed.
C9_BatchContinues ==
    (\E i \in 1..Len(log) : UploadFailed(log[i])) =>
        /\ ~RaisedInLoop
        /\ (pc = "done" => Len(log) = Len(queue))

\* C10: the status main returns is "success" only when every upload of the
\* batch succeeded; a failed wiki-page or image upload makes it a partial
\* success.
C10_PartialSuccessReported ==
    (pc = "done" /\ result.status = "success") =>
        \A i \in 1..Len(log) : ~UploadFailed(log[i])

\* C11: the stored ImageHash changes only when the upload that
\* upload_image_if_changed performs succeeds: after a tool's image upload
\* failed, the stored hash is not the hash of that image, so the next run
\* uploads it again.
C11_HashOnlyAfterSuccess ==
    \A k \in 1..Len(log) :
        log[k].image \in {"error", "raise"} =>
            fetch_image_hash(tools, log[k].tool) # images[log[k].tool]

(***************************************************************************)
(* The record store of db_utils.py in direct mode                          *)
(***************************************************************************)
NumChars == DigitChars \cup {"."}

\* value.replace(",", "")
RECURSIVE RemoveCommas(_)
RemoveCommas(s) ==
    IF s = <<>> THEN <<>>
    ELSE (IF Head(s) = "," THEN <<>> ELSE <<Head(s)>>) \o RemoveCommas(Tail(s))

\* re.search(r"-?[0-9.]+", s): the first match, or <<>> when there is none
RECURSIVE SearchNumber(_)
SearchNumber(s) ==
    IF s = <<>> THEN <<>>
    ELSE IF Head(s) \in NumChars THEN TakeWhile(s, NumChars)
    ELSE IF Head(s) = "-" /\ Len(s) > 1 /\ s[2] \in NumChars
    THEN <<"-">> \o TakeWhile(Tail(s), NumChars)
    ELSE SearchNumber(Tail(s))

RECURSIVE Contains(_, _)
Contains(s, sub) ==
    IF Len(s) < Len(sub) THEN FALSE
    ELSE SubSeq(s, 1, Len(sub)) = sub \/ Contains(Tail(s), sub)

\* "mm" in value.lower()
HasMm(s) ==
    \E u \in {<<"m", "m">>, <<"M", "m">>, <<"m", "M">>, <<"M", "M">>} :
        Contains(s, u)

\* extract_numeric(value, field_type): [raised, val] with val a float in
\* units of 1/200000 or None; a value that is not a text has no replace()
extract_numeric(value, field_type) ==
    IF ~Truthy(value) THEN [raised |-> FALSE, val |-> FloatNone]
    ELSE IF ~IsText(value) THEN [raised |-> TRUE, val |-> FloatNone]
    ELSE LET s == RemoveCommas(value)
             m == SearchNumber(s)
             run == IF m # <<>> /\ Head(m) = "-" THEN Tail(m) ELSE m
             mag == PyFloat(run)
             number == IF m # <<>> /\ Head(m) = "-" THEN 0 - mag ELSE mag
         IN  IF m = <<>> THEN [raised |-> FALSE, val |-> FloatNone]
             ELSE IF ~FloatValid(run) THEN [raised |-> TRUE, val |-> FloatNone]
             ELSE IF field_type = "dimension" /\ HasMm(s)
             THEN [raised |-> FALSE, val |-> FloatOf(RoundDiv(number * 10, 254))]
             ELSE [raised |-> FALSE, val |-> FloatOf(number)]

\* (x or 0) for a float or None
OrZero(val) == IF val.isnone THEN 0 ELSE val.num

\* int(x) of a float: truncation toward zero, as a Python int value
PyIntOfFloat(num) ==
    LET a == Abs(num) \div 200000
    IN  IF a = 0 THEN <<"int", "0">>
        ELSE (IF num < 0 THEN <<"int", "-">> ELSE <<"int">>) \o NatToText(a)

\* float(int(x)) of a float
TruncFloat(num) ==
    LET a == (Abs(num) \div 200000) * 200000
    IN  IF num < 0 THEN 0 - a ELSE a

\* the columns update() never writes
ExcludedFields == {"ImageHash"}

\* setattr(tool, key, value) for every entry of data that names a column
SetColumns(row, data) ==
    [k \in DOMAIN row |-> IF k \in DOMAIN data THEN data[k] ELSE row[k]]

\* a table with the row of key n stored under the key the row now carries
Rekey(table, n, row) ==
    (row.ToolNumber :> row) @@ [k \in (DOMAIN table) \ {n} |-> table[k]]

\* an update whose new primary key is the key of another row fails
KeyCollision(table, n, row) ==
    row.ToolNumber # n /\ row.ToolNumber \in DOMAIN table

\* the largest ToolNumber of the record store
MaxStoreTools == 2

StoreNumbers == 1..MaxStoreTools

RpmText == <<"9", ",", "0", "0", "0">>

HalfInchMm == <<"1", "2", ".", "7", "m", "m">>

Called(op, n, raised) == [called |-> TRUE, op |-> op, raised |-> raised]

\* the tools row insert() builds from tool_data
InsertedRow(data, rpm) ==
    [SetColumns(BlankRow(data.ToolNumber),
                [k \in (DOMAIN data) \ ExcludedFields |-> data[k]])
        EXCEPT !.ToolMaxRPM = PyIntOfFloat(OrZero(rpm))]

\* insert(tool_data): one transaction over the three tables
Insert(data) ==
    LET n   == data.ToolNumber
        rpm == extract_numeric(DictGet(data, "ToolMaxRPM", None), "rpm")
        dia == extract_numeric(DictGet(data, "ToolDiameter", None), "dimension")
        fails == \/ rpm.raised \/ dia.raised
                 \/ n \in DOMAIN tools
                 \/ n \in DOMAIN tool_tbl
                 \/ n \in DOMAIN tool_props
    IN  /\ call' = Called("insert", n, fails)
        /\ IF fails
           THEN UNCHANGED <<tools, tool_tbl, tool_props>>
           ELSE /\ tools' = (n :> InsertedRow(data, rpm.val)) @@ tools
                /\ tool_tbl' = (n :> ToolModelRow(n, dia.val, data.ToolName))
                                  @@ tool_tbl
                /\ tool_props' =
                      (n :> ToolPropertiesRow(n,
                               FloatOf(TruncFloat(OrZero(rpm.val)))))
                         @@ tool_props
        /\ UNCHANGED <<fctb, ver, mapped, gen>>
        /\ UNCHANGED publishVars
        /\ UNCHANGED renderVars

\* the tools row update() writes back: every entry of updated_data outside
\* the excluded fields, and ToolMaxRPM
UpdatedRow(row, data, rpm) ==
    [SetColumns(row, [k \in (DOMAIN data) \ ExcludedFields |-> data[k]])
        EXCEPT !.ToolMaxRPM = PyIntOfFloat(OrZero(rpm))]

\* update(tool_number, updated_data): three commits, one per table
Update(n, data) ==
    LET rpm == extract_numeric(DictGet(data, "ToolMaxRPM", None), "rpm")
        dia == extract_numeric(DictGet(data, "ToolDiameter", None), "dimension")
        hasTool  == n \in DOMAIN tools
        newRow   == UpdatedRow(tools[n], data, rpm.val)
        failA    == hasTool /\ (rpm.raised \/ KeyCollision(tools, n, newRow))
        hasTbl   == n \in DOMAIN tool_tbl
        failB    == hasTbl /\ "ToolDiameter" \in DOMAIN data /\ dia.raised
        hasProps == n \in DOMAIN tool_props
        failC    == hasProps /\ "ToolMaxRPM" \in DOMAIN data /\ rpm.raised
        tblRow   == [tool_tbl[n] EXCEPT
                        !.diameter = IF "ToolDiameter" \in DOMAIN data
                                        /\ ~dia.val.isnone
                                     THEN dia.val ELSE @,
                        !.remark = IF "ToolName" \in DOMAIN data
                                   THEN data.ToolName ELSE @]
        propsRow == [tool_props[n] EXCEPT
                        !.max_rpm = IF "ToolMaxRPM" \in DOMAIN data
                                    THEN FloatOf(OrZero(rpm.val)) ELSE @]
    IN  /\ call' = Called("update", n, failA \/ failB \/ failC)
        /\ tools' = IF hasTool /\ ~failA THEN Rekey(tools, n, newRow) ELSE tools
        /\ tool_tbl' = IF ~failA /\ hasTbl /\ ~failB
                       THEN [tool_tbl EXCEPT ![n] = tblRow] ELSE tool_tbl
        /\ tool_props' = IF ~failA /\ ~failB /\ hasProps /\ ~failC
                         THEN [tool_props EXCEPT ![n] = propsRow]
                         ELSE tool_props
        /\ UNCHANGED <<fctb, ver, mapped, gen>>
        /\ UNCHANGED publishVars
        /\ UNCHANGED renderVars

Without(table, n) == [k \in (DOMAIN table) \ {n} |-> table[k]]

\* delete(tool_number): one transaction over the three tables
Delete(n) ==
    /\ call' = Called("delete", n, FALSE)
    /\ tools' = Without(tools, n)
    /\ tool_tbl' = Without(tool_tbl, n)
    /\ tool_props' = Without(tool_props, n)
    /\ UNCHANGED <<fctb, ver, mapped, gen>>
    /\ UNCHANGED publishVars
    /\ UNCHANGED renderVars

\* update_image_hash(tool_number, image_hash) called on the store
UpdateImageHash(n, h) ==
    /\ call' = Called("update_image_hash", n, FALSE)
    /\ tools' = update_image_hash(tools, n, h)
    /\ UNCHANGED <<tool_tbl, tool_props>>
    /\ UNCHANGED <<fctb, ver, mapped, gen>>
    /\ UNCHANGED publishVars
    /\ UNCHANGED renderVars

InsertData ==
    {[ToolNumber |-> n, ToolName |-> BitText, ToolDiameter |-> OneInch,
      ToolMaxRPM |-> RpmText] : n \in StoreNumbers}

\* a partial update as the API accepts it, and the full form data of the
\* GUI, which carries the ToolNumber field
UpdateData ==
    {[ToolName |-> VeeText, ImageHash |-> HashA]}
    \cup {[ToolNumber |-> k, ToolName |-> BitText,
           ToolMaxRPM |-> <<"-", "1">>, ToolDiameter |-> HalfInchMm] :
              k \in StoreNumbers}

InitStore ==
    /\ RenderIdle
    /\ tools = EmptyDict
    /\ tool_tbl = EmptyDict
    /\ tool_props = EmptyDict
    /\ call = NoCall
    /\ fctb = EmptyDirs
    /\ ver = V10
    /\ mapped = NoCall
    /\ gen = NoCall
    /\ images = EmptyDict
    /\ library = [v \in Versions |-> {}]
    /\ pc = "idle"
    /\ queue = <<>>
    /\ idx = 0
    /\ log = <<>>
    /\ result = NoResult

NextStore ==
    \/ \E data \in InsertData : Insert(data)
    \/ \E n \in StoreNumbers, data \in UpdateData : Update(n, data)
    \/ \E n \in StoreNumbers : Delete(n)
    \/ \E n \in StoreNumbers : UpdateImageHash(n, HashA)

SpecStore == InitStore /\ [][NextStore]_vars

\* C8: ToolNumber is immutable: no update(tool_number, data) call changes the
\* ToolNumber of the record it updated, whatever ToolNumber data carries, so
\* an update leaves the set of stored ToolNumbers as it was.
C8_ToolNumberImmutable ==
    [][(call'.called /\ call'.op = "update") =>
          /\ DOMAIN tools' = DOMAIN tools
          /\ \A n \in DOMAIN tools' : tools'[n].ToolNumber = n]_vars

\* C29: after any sequence of insert, update and delete calls the tables
\* tools, tool and tool_properties hold the same set of tool numbers.
C29_SameToolNumbers ==
    /\ DOMAIN tools = DOMAIN tool_tbl
    /\ DOMAIN tool_tbl = DOMAIN tool_props

\* the key under which update(n, data) leaves the row it wrote
C30_KeyAfter(n, data) == DictGet(data, "ToolNumber", n)

\* C30: update(tool_number, data) changes only the columns named in data:
\* every column data omits, ToolMaxRPM included, keeps its previous value,
\* and ImageHash keeps its previous value even when data names it.
C30_UpdateFrame ==
    [][\A n \in StoreNumbers, data \in UpdateData :
          (Update(n, data) /\ ~call'.raised /\ n \in DOMAIN tools) =>
              /\ \A col \in Columns \ DOMAIN data :
                    tools'[C30_KeyAfter(n, data)][col] = tools[n][col]
              /\ tools'[C30_KeyAfter(n, data)].ImageHash = tools[n].ImageHash]_vars

(***************************************************************************)
(* format_measurement                                                      *)
(***************************************************************************)
NAText == <<"N", "/", "A">>

QuoteText == <<"\"">>

\* the largest denominator of Fraction.limit_denominator(64)
MaxDenominator == 64

\* the numerator nearest to num * q for a float num >= 0 in units of 1/200000
NearestNumerator(num, q) == RoundDiv(num * q, 200000)

\* the distance of NearestNumerator(num, q) / q from num, times 200000 * q
FractionError(num, q) == Abs(num * q - NearestNumerator(num, q) * 200000)

\* of two denominators the one whose nearest fraction is closer to num, the
\* smaller one when both are as close
CloserDenominator(num, q, r) ==
    IF FractionError(num, r) * q < FractionError(num, q) * r THEN r
    ELSE IF FractionError(num, r) * q = FractionError(num, q) * r /\ r < q
    THEN r
    ELSE q

\* the best denominator among lo..hi
RECURSIVE BestIn(_, _, _)
BestIn(num, lo, hi) ==
    IF lo = hi THEN lo
    ELSE CloserDenominator(num, BestIn(num, lo, (lo + hi) \div 2),
                           BestIn(num, (lo + hi) \div 2 + 1, hi))

\* the denominator of Fraction(num).limit_denominator(64): the smallest one
\* among those whose nearest fraction is closest to num
BestDenominator(num) == BestIn(num, 1, MaxDenominator)

\* the text of a fraction numerator/denominator as lines 151-162 write it
FractionText(numerator, denominator) ==
    IF numerator > denominator
    THEN IF numerator % denominator > 0
         THEN NatToText(numerator \div denominator) \o <<"-">>
                 \o NatToText(numerator % denominator) \o <<"/">>
                 \o NatToText(denominator)
         ELSE NatToText(numerator \div denominator)
    ELSE NatToText(numerator) \o <<"/">> \o NatToText(denominator)

\* lines 147-162 for a float num and the denominator chosen for it
InchFraction(num, q) ==
    IF num % 200000 = 0 THEN NatToText(num \div 200000)
    ELSE FractionText(NearestNumerator(num, q), q)

\* lines 144-171: the inch branch
InchText(num_str, convert_to_fraction, add_quotes) ==
    (IF convert_to_fraction
     THEN InchFraction(PyFloat(num_str), BestDenominator(PyFloat(num_str)))
     ELSE num_str)
    \o (IF add_quotes THEN QuoteText ELSE <<" ">> \o InText)

\* lines 131-182 for a stripped text s split into its numeric run and the
\* rest after the run and the whitespace that follows it
FormatMatched(value, run, rest, convert_to_fraction, add_quotes) ==
    IF run = <<>> \/ \E i \in 1..Len(rest) : rest[i] \notin UnitChars
    THEN value
    ELSE IF ~FloatValid(run) THEN value
    ELSE IF rest \in {QuoteText, <<>>, InText}
    THEN InchText(run, convert_to_fraction, add_quotes)
    ELSE value

\* lines 129-182 for a value that is a text and not blank
FormatStripped(value, s, convert_to_fraction, add_quotes) ==
    FormatMatched(value, TakeWhile(s, DigitChars \cup {"."}),
                  DropWhile(DropWhile(s, DigitChars \cup {"."}), WhitespaceChars),
                  convert_to_fraction, add_quotes)

\* format_measurement(value, convert_to_fraction, add_quotes): [raised, text]
format_measurement(value, convert_to_fraction, add_quotes) ==
    IF IsNone(value) THEN [raised |-> FALSE, text |-> NAText]
    ELSE IF IsInt(value) THEN [raised |-> TRUE, text |-> <<>>]
    ELSE IF PyStrip(value) = <<>> THEN [raised |-> FALSE, text |-> NAText]
    ELSE [raised |-> FALSE,
          text |-> FormatStripped(value, PyStrip(value),
                                  convert_to_fraction, add_quotes)]

(***************************************************************************)
(* generate_tool_table                                                     *)
(***************************************************************************)
\* str(value)
PyStr(value) ==
    IF IsNone(value) THEN <<"N", "o", "n", "e">>
    ELSE IF IsInt(value) THEN Tail(value)
    ELSE value

IntZero == <<"int", "0">>

IntMinusOne == <<"int", "-", "1">>

\* lines 1177-1183: the integer read from ToolMaxRPM, 0 when int() rejects it
TableRpm(max_rpm) ==
    IF IsNone(max_rpm) THEN IntZero
    ELSE IF IsInt(max_rpm) THEN max_rpm
    ELSE IF IsInt(CoerceValue(PyStrip(RemoveCommas(max_rpm))))
    THEN CoerceValue(PyStrip(RemoveCommas(max_rpm)))
    ELSE IntZero

\* the U field without the comparison with the machine max RPM
UValueAnyRpm(max_rpm_value, machine_max_rpm) ==
    IF max_rpm_value = IntMinusOne THEN <<"U", "-", "1">>
    ELSE IF max_rpm_value # IntZero THEN <<"U">> \o Tail(max_rpm_value)
    ELSE <<"U", "0">>

\* lines 1186-1191
UValue(max_rpm_value, machine_max_rpm) ==
    IF max_rpm_value = IntMinusOne THEN <<"U", "-", "1">>
    ELSE IF max_rpm_value # machine_max_rpm /\ max_rpm_value # IntZero
    THEN <<"U">> \o Tail(max_rpm_value)
    ELSE <<"U", "0">>

\* f"{diameter:.4f}" for a float in units of 1/200000
FourDecimals(num) == FormatFixed(RoundDiv(Abs(num), 20), 4, num < 0)

LinePrefix == <<" ", "P", "0", " ", "X", "0", " ", "Y", "0", " ", "Z", "0", " ", "A", "0", " ", "B", "0", " ", "C", "0", " ">>

LineMiddle == <<" ", "V", "0", " ", "W", "0", " ", "D">>

LineSuffix == <<" ", "I", "0", " ", "J", "0", " ", "Q", "0", " ", ";">>

\* line 1195 for the diameter extract_numeric returned
FormatLine(tool, u_value, diameter) ==
    <<"T">> \o NatToText(tool.ToolNumber) \o LinePrefix \o u_value
        \o LineMiddle \o FourDecimals(OrZero(diameter)) \o LineSuffix
        \o PyStr(tool.ToolName)

\* the body of the loop of lines 1164-1196: [raised, line]
TableLine(tool, machine_max_rpm, diameter) ==
    IF diameter.raised THEN [raised |-> TRUE, line |-> <<>>]
    ELSE [raised |-> FALSE,
          line |-> FormatLine(tool, UValue(TableRpm(tool.ToolMaxRPM),
                                           machine_max_rpm), diameter.val)]

\* the loop of lines 1164-1196 over the fetched rows: [raised, lines]
RECURSIVE TableLines(_, _)
AppendLine(one, rest) ==
    IF one.raised \/ rest.raised THEN [raised |-> TRUE, lines |-> <<>>]
    ELSE [raised |-> FALSE, lines |-> <<one.line>> \o rest.lines]

TableLines(rows, machine_max_rpm) ==
    IF rows = <<>> THEN [raised |-> FALSE, lines |-> <<>>]
    ELSE AppendLine(TableLine(Head(rows), machine_max_rpm,
                              extract_numeric(Head(rows).ToolDiameter,
                                              "dimension")),
                    TableLines(Tail(rows), machine_max_rpm))

\* generate_tool_table(): [raised, lines]
generate_tool_table(table, machine_max_rpm) ==
    TableLines(fetch_tool_data(table), machine_max_rpm)

(***************************************************************************)
(* generate_wiki_page.  The page is a sequence of pieces: a character, a   *)
(* literal run of the template, or a field token such as "[Flutes]"; a     *)
(* text that holds a field token holds it as one piece.                    *)
(***************************************************************************)
Template ==
    <<"\n", "[[Nibblerbot/tools|Back to Tool Library]]", "\n", "==Tool ",
      "[ToolNumber]", " - ", "[ToolName]", "==", "\n",
      "{| class=\"wikitable\"", "\n", "|-", "\n",
      "!style=\"width: 200px;\"| Attribute !!style=\"width: 400px;\"| Details",
      "\n", "|-", "\n", "| ", "'''Tool #'''", " || ", "[ToolNumber]", "\n",
      "|-", "\n", "| ", "'''Tool Type'''", " || ", "[ToolType]", "\n", "|-",
      "\n", "| ", "'''Shank Size'''", " || ", "[ToolShankSize]", "\n", "|-",
      "\n", "| ", "'''Diameter'''", " || ", "[ToolDiameter]", "\n",
      "[INSERT_CORNERRADIUS]", "[INSERT_CUTTINGRADIUS]",
      "[INSERT_TAPERANGLE]", "[INSERT_TAPERDIAMETER]", "|-", "\n", "| ",
      "'''Flutes (FL)'''", " || ", "[Flutes]", "\n", "|-", "\n", "| ",
      "'''Overall Length (OAL)'''", " || ", "[OAL]", "\n", "|-", "\n", "| ",
      "'''Length of Cut (LOC)'''", " || ", "[LOC]", "\n", "|-", "\n", "| ",
      "'''Max RPM'''", " || ", "[ToolMaxRPM]", "\n", "|-", "\n", "| ",
      "'''Material'''", " || ", "[ToolMaterial]", "\n", "|-", "\n", "| ",
      "'''Coating'''", " || ", "[ToolCoating]", "\n", "|-", "\n", "| ",
      "'''Part Number'''", " || ", "[PartNumber]", "\n", "|-", "\n", "| ",
      "'''Manufacturer'''", " || ", "[ManufacturerName]", "\n", "|-", "\n",
      "| ", "'''Image'''", " || [[File:", "[ToolImageFileName]",
      "|thumb|left]]", "\n", "|-", "\n", "| ", "'''Order Link'''", " || [[",
      "[ToolOrderURL]", " Click here to purchase this tool]]", "\n", "|}",
      "\n", "\n", "==Usage Information==", "\n",
      "'''Compatible Materials'''", ": ", "[Materials]", "\n", "\n",
      "'''Recommended Speeds and Feeds'''", ":", "\n", " ", "'''RPM'''",
      ": ", "[SuggestedRPM]", "\n", " ", "'''Feed Rate'''", ": ",
      "[SuggestedFeedRate]", "\n", " ", "'''Depth of Cut'''", ": ",
      "[SuggestedMaxDOC]", "\n", "\n", "==Additional Notes==", "\n",
      "[AdditionalNotes]">>

Placeholders ==
    <<"ToolNumber", "ToolName", "ToolType", "ToolShankSize", "Flutes", "OAL",
      "LOC", "ToolMaxRPM", "ToolDiameter", "ToolMaterial", "ToolCoating",
      "PartNumber", "ManufacturerName", "ToolOrderURL", "Materials",
      "SuggestedRPM", "SuggestedMaxDOC", "AdditionalNotes",
      "SuggestedFeedRate", "ToolImageFileName">>

\* f"[{field}]"
Token(field) == "[" \o field \o "]"

\* the index of the first piece of s that is x
FirstIndex(s, x) ==
    CHOOSE i \in 1..Len(s) : s[i] = x /\ \A j \in 1..(i - 1) : s[j] # x

\* page_content.replace(token, text): the occurrences from left to right
RECURSIVE Replace(_, _, _)
ReplaceAt(page_content, token, text, i) ==
    SubSeq(page_content, 1, i - 1) \o text
        \o Replace(SubSeq(page_content, i + 1, Len(page_content)), token, text)

Replace(page_content, token, text) ==
    IF \A i \in 1..Len(page_content) : page_content[i] # token
    THEN page_content
    ELSE ReplaceAt(page_content, token, text, FirstIndex(page_content, token))

\* the optional rows of lines 925-967 and their INSERT_ tokens
OptionalRows ==
    [CornerRadius  |-> [label |-> "'''Corner Radius'''",
                        token |-> "[INSERT_CORNERRADIUS]"],
     CuttingRadius |-> [label |-> "'''Cutting Radius'''",
                        token |-> "[INSERT_CUTTINGRADIUS]"],
     TaperAngle    |-> [label |-> "'''Taper Angle'''",
                        token |-> "[INSERT_TAPERANGLE]"],
     TaperDiameter |-> [label |-> "'''Taper Diameter'''",
                        token |-> "[INSERT_TAPERDIAMETER]"]]

OptionalOrder ==
    <<"CornerRadius", "CuttingRadius", "TaperAngle", "TaperDiameter">>

\* f"|-\n| '''Corner Radius''' || {formatted}\n"
RowText(label, formatted) ==
    <<"|-", "\n", "| ", label, " || ">> \o formatted \o <<"\n">>

\* lines 925-933 with a row for a missing or empty value as well
OptionalRowAlways(label, value) ==
    IF ~Truthy(value)
    THEN [raised |-> FALSE, text |-> RowText(label, NAText)]
    ELSE IF format_measurement(value, TRUE, TRUE).raised
    THEN [raised |-> TRUE, text |-> <<>>]
    ELSE [raised |-> FALSE,
          text |-> RowText(label, format_measurement(value, TRUE, TRUE).text)]

\* lines 925-933 for one parameter: [raised, text]
OptionalRow(label, value) ==
    IF ~Truthy(value) THEN [raised |-> FALSE, text |-> <<>>]
    ELSE IF format_measurement(value, TRUE, TRUE).raised
    THEN [raised |-> TRUE, text |-> <<>>]
    ELSE [raised |-> FALSE,
          text |-> RowText(label, format_measurement(value, TRUE, TRUE).text)]

\* lines 925-967 and 995-998: [raised, page]
RECURSIVE InsertRows(_, _, _)
InsertRow(page_content, shape_parameters, names, row) ==
    IF row.raised THEN [raised |-> TRUE, page |-> <<>>]
    ELSE InsertRows(Replace(page_content, OptionalRows[Head(names)].token,
                            row.text),
                    shape_parameters, Tail(names))

InsertRows(page_content, shape_parameters, names) ==
    IF names = <<>> THEN [raised |-> FALSE, page |-> page_content]
    ELSE InsertRow(page_content, shape_parameters, names,
                   OptionalRow(OptionalRows[Head(names)].label,
                               DictGet(shape_parameters, Head(names), None)))

\* tool_data.get(field, None): the ToolNumber of a row is a number
FieldValue(tool, field) ==
    IF field = "ToolNumber" THEN <<"int">> \o NatToText(tool.ToolNumber)
    ELSE tool[field]

\* the grouping of f"{n:,}" for the digits of n
RECURSIVE Commas(_)
Commas(ds) ==
    IF Len(ds) <= 3 THEN ds
    ELSE Commas(SubSeq(ds, 1, Len(ds) - 3)) \o <<",">>
            \o SubSeq(ds, Len(ds) - 2, Len(ds))

\* f"{n:,}" for a Python int
CommaText(n) ==
    IF n[2] = "-" THEN <<"-">> \o Commas(SubSeq(n, 3, Len(n)))
    ELSE Commas(Tail(n))

\* int(value) for a value IntConvertible accepts
IntOf(value) == IF IsInt(value) THEN value ELSE CoerceValue(PyStrip(value))

\* line 1005 without the test for the sentinel
FormatMaxRpmNoSentinel(value) ==
    IF IntConvertible(value)
    THEN [raised |-> FALSE, text |-> CommaText(IntOf(value))]
    ELSE [raised |-> TRUE, text |-> <<>>]

\* line 1005: [raised, text]
FormatMaxRpm(value) ==
    IF PyStr(value) = <<"-", "1">> THEN [raised |-> FALSE, text |-> NAText]
    ELSE IF IntConvertible(value)
    THEN [raised |-> FALSE, text |-> CommaText(IntOf(value))]
    ELSE [raised |-> TRUE, text |-> <<>>]

PngExt == <<".", "p", "n", "g">>

\* lines 1004-1019: [raised, text]
FormattedValue(tool, field) ==
    IF field = "ToolMaxRPM" THEN FormatMaxRpm(tool.ToolMaxRPM)
    ELSE IF field \in {"ToolShankSize", "ToolDiameter"}
    THEN format_measurement(tool[field], TRUE, TRUE)
    ELSE IF field \in {"OAL", "LOC"}
    THEN format_measurement(tool[field], FALSE, TRUE)
    ELSE IF field = "ToolImageFileName"
    THEN [raised |-> FALSE,
          text |-> IF Truthy(tool[field]) THEN PyStr(tool[field])
                   ELSE <<"t", "o", "o", "l", "_">>
                           \o NatToText(tool.ToolNumber) \o PngExt]
    ELSE [raised |-> FALSE,
          text |-> IF Truthy(FieldValue(tool, field))
                   THEN PyStr(FieldValue(tool, field))
                   ELSE NAText]

\* the loop of lines 1000-1022: [raised, page]
RECURSIVE ReplaceFields(_, _, _)
ReplaceField(page_content, tool, fields, formatted_value) ==
    IF formatted_value.raised THEN [raised |-> TRUE, page |-> <<>>]
    ELSE ReplaceFields(Replace(page_content, Token(Head(fields)),
                               formatted_value.text),
                       tool, Tail(fields))

ReplaceFields(page_content, tool, fields) ==
    IF fields = <<>> THEN [raised |-> FALSE, page |-> page_content]
    ELSE ReplaceField(page_content, tool, fields,
                      FormattedValue(tool, Head(fields)))

\* lines 995-1024 for the parsed shape parameters
RenderPage(tool, inserted) ==
    IF inserted.raised THEN [raised |-> TRUE, page |-> <<>>]
    ELSE ReplaceFields(inserted.page, tool, Placeholders)

\* generate_wiki_page(tool_data): [raised, page]
generate_wiki_page(tool_data) ==
    IF LoadBlob(tool_data.ShapeParameter).raised
    THEN [raised |-> TRUE, page |-> <<>>]
    ELSE RenderPage(tool_data,
                    InsertRows(Template, LoadBlob(tool_data.ShapeParameter).m,
                               OptionalOrder))

(***************************************************************************)
(* The renderers called on the rows of the record store                    *)
(***************************************************************************)
\* the largest number of rows of the rendered table
MaxRenderTools == 2

Rpm18000 == <<"int", "1", "8", "0", "0", "0">>

RenderRpms == {IntMinusOne, IntZero, DefaultMaxRpm, Rpm18000, None}

BadNumber == <<"1", ".", "2", ".", "3">>

RenderDiameters ==
    {QuarterInch, HalfInchMm, BadNumber, None, <<"0", ".", "5">>,
     <<"a", "b", "c">>}

EighthInch == <<"0", ".", "1", "2", "5">>

RenderParamBlobs ==
    {NullBlob, BadBlob,
     JsonBlob(("CornerRadius" :> EighthInch) @@ ("CuttingRadius" :> <<>>)),
     JsonBlob(("TaperAngle" :> <<" ">>) @@ ("TaperDiameter" :> TwoMm))}

\* a row every renderer accepts
BaseRow(n) ==
    [BlankRow(n) EXCEPT !.ToolName = BitText, !.Shape = EndmillId,
                        !.ToolMaxRPM = Rpm18000, !.ToolDiameter = QuarterInch,
                        !.Flutes = <<"2">>]

\* the rows of the rendered table: the base row with one column changed
RenderRows(n) ==
    {[BaseRow(n) EXCEPT !.ToolMaxRPM = r] : r \in RenderRpms}
    \cup {[BaseRow(n) EXCEPT !.ToolDiameter = d] : d \in RenderDiameters}
    \cup {[BaseRow(n) EXCEPT !.ShapeParameter = b] : b \in RenderParamBlobs}
    \cup {[BaseRow(n) EXCEPT !.ToolMaterial = <<>>, !.Flutes = None]}

RenderTables ==
    UNION {{t \in [1..k -> UNION {RenderRows(n) : n \in 1..k}] :
                \A n \in 1..k : t[n].ToolNumber = n} : k \in 1..MaxRenderTools}

InitRender ==
    /\ tools \in RenderTables
    /\ config_max_rpm \in {DefaultMaxRpm, Rpm18000}
    /\ tool_table = NoCall
    /\ page = NoCall
    /\ arg = None
    /\ out = NoCall
    /\ fctb = EmptyDirs
    /\ ver = V10
    /\ mapped = NoCall
    /\ gen = NoCall
    /\ images = EmptyDict
    /\ library = [v \in Versions |-> {}]
    /\ pc = "idle"
    /\ queue = <<>>
    /\ idx = 0
    /\ log = <<>>
    /\ result = NoResult
    /\ tool_tbl = EmptyDict
    /\ tool_props = EmptyDict
    /\ call = NoCall

\* the outcome record of a generate_tool_table call
TableOutcome(r) == [called |-> TRUE, raised |-> r.raised, lines |-> r.lines]

\* no renderer has been applied to the table yet
NotRendered == ~tool_table.called /\ ~page.called

\* generate_tool_table()
TableCall ==
    /\ NotRendered
    /\ tool_table' = TableOutcome(generate_tool_table(tools, config_max_rpm))
    /\ UNCHANGED <<tools, fctb, ver, mapped, gen, config_max_rpm, page, arg,
                   out>>
    /\ UNCHANGED publishVars
    /\ UNCHANGED storeVars

\* the outcome record of a generate_wiki_page call on row n
PageOutcome(n, r) ==
    [called |-> TRUE, nr |-> n, raised |-> r.raised, text |-> r.page]

\* generate_wiki_page(tool) for a row of the table
WikiCall ==
    /\ NotRendered
    /\ \E n \in DOMAIN tools :
          page' = PageOutcome(n, generate_wiki_page(tools[n]))
    /\ UNCHANGED <<tools, fctb, ver, mapped, gen, config_max_rpm, tool_table,
                   arg, out>>
    /\ UNCHANGED publishVars
    /\ UNCHANGED storeVars

NextRender == TableCall \/ WikiCall

SpecRender == InitRender /\ [][NextRender]_vars

(***************************************************************************)
(* The text utilities applied to bounded inputs                            *)
(***************************************************************************)
\* the longest input text
MaxLen == 3

TextChars == {"a", " ", "\"", "/", "\n", "1", "9", ".", "-", "m", ","}

TextInputs == {None} \cup UNION {[1..k -> TextChars] : k \in 0..MaxLen}

ColumnNames ==
    (DOMAIN ColumnMapping) \cup {ColumnMapping[k] : k \in DOMAIN ColumnMapping}
        \cup {"Shape", "Flutes"}

Directions == {"to_sqlite", "to_json"}

OtherDirection(direction) ==
    IF direction = "to_sqlite" THEN "to_json" ELSE "to_sqlite"

InitText ==
    /\ tools = EmptyDict
    /\ RenderIdle
    /\ fctb = EmptyDirs
    /\ ver = V10
    /\ mapped = NoCall
    /\ gen = NoCall
    /\ images = EmptyDict
    /\ library = [v \in Versions |-> {}]
    /\ pc = "idle"
    /\ queue = <<>>
    /\ idx = 0
    /\ log = <<>>
    /\ result = NoResult
    /\ tool_tbl = EmptyDict
    /\ tool_props = EmptyDict
    /\ call = NoCall

\* each behaviour applies one utility to one input
textFrame ==
    <<tools, fctb, ver, mapped, gen, config_max_rpm, tool_table, page,
      publishVars, storeVars>>

\* sanitize_filename(x), and sanitize_filename again on what it returned
SanitizeCall ==
    /\ ~out.called
    /\ \E x \in TextInputs :
          /\ arg' = x
          /\ out' = [called |-> TRUE, op |-> "sanitize_filename",
                      value |-> sanitize_filename(x),
                      again |-> sanitize_filename(sanitize_filename(x))]
    /\ UNCHANGED textFrame

\* extract_numeric(x, field_type)
ExtractCall ==
    /\ ~out.called
    /\ \E x \in TextInputs, field_type \in {"dimension", "rpm"} :
          /\ arg' = x
          /\ out' = [called |-> TRUE, op |-> "extract_numeric",
                      field_type |-> field_type,
                      raised |-> extract_numeric(x, field_type).raised,
                      value |-> extract_numeric(x, field_type).val]
    /\ UNCHANGED textFrame

\* map_column_names(x, direction), and the opposite direction on the result
ColumnCall ==
    /\ ~out.called
    /\ \E x \in ColumnNames, direction \in Directions :
          /\ arg' = x
          /\ out' = [called |-> TRUE, op |-> "map_column_names",
                      direction |-> direction,
                      value |-> map_column_names(x, direction),
                      back |-> map_column_names(
                                   map_column_names(x, direction),
                                   OtherDirection(direction))]
    /\ UNCHANGED textFrame

\* decimal inch values next to a whole number and plain fractions of an inch
MeasureTexts ==
    {<<"0", ".", "9", "9", "9">>, <<"0", ".", "0", "0", "1">>,
     <<"0", ".", "2", "5">>, <<"1", ".", "5", " ", "i", "n">>,
     <<"1", ".", "9", "9", "9", "\"">>, <<"0", ".", "3", "3">>}

\* simple and mixed fractions, with and without a unit
FractionTexts ==
    {FractionInch, <<"1", "-", "1", "/", "2">>,
     <<"1", " ", "1", "/", "2", "\"">>, <<"3", "/", "4", "m", "m">>}

\* format_measurement(x, convert_to_fraction, add_quotes)
FormatCall ==
    /\ ~out.called
    /\ \E x \in TextInputs \cup MeasureTexts \cup FractionTexts, convert_to_fraction \in BOOLEAN,
          add_quotes \in BOOLEAN :
          /\ arg' = x
          /\ out' = [called |-> TRUE, op |-> "format_measurement",
                      convert |-> convert_to_fraction, quotes |-> add_quotes,
                      text |-> format_measurement(x, convert_to_fraction,
                                                  add_quotes).text]
    /\ UNCHANGED textFrame

\* convert_to_original_unit(*extract_numeric_value_with_unit(x)): the parsed
\* (value, unit) pair rendered as text again, as map_tool_to_json does
ParseFormatCall ==
    /\ ~out.called
    /\ \E x \in TextInputs \cup MeasureTexts \cup FractionTexts :
          LET parsed == extract_numeric_value_with_unit(x)
          IN  /\ arg' = x
              /\ out' = [called |-> TRUE, op |-> "parse_format",
                          raised |-> parsed.raised,
                          text |-> IF parsed.raised THEN <<>>
                                   ELSE convert_to_original_unit(parsed.num,
                                                                 parsed.unit)]
    /\ UNCHANGED textFrame

NextText ==
    SanitizeCall \/ ExtractCall \/ ColumnCall \/ FormatCall \/ ParseFormatCall

SpecText == InitText /\ [][NextText]_vars

(***************************************************************************)
(* Properties of the renderers                                             *)
(***************************************************************************)
\* the text before the first c of s
RECURSIVE C13_UpTo(_, _)
C13_UpTo(s, c) ==
    IF s = <<>> \/ Head(s) = c THEN <<>>
    ELSE <<Head(s)>> \o C13_UpTo(Tail(s), c)

\* the text after the first c of s
RECURSIVE C13_After(_, _)
C13_After(s, c) ==
    IF s = <<>> THEN <<>>
    ELSE IF Head(s) = c THEN Tail(s)
    ELSE C13_After(Tail(s), c)

\* line.split(" ")
RECURSIVE C13_Fields(_)
C13_Fields(line) ==
    IF " " \notin Range(line) THEN <<line>>
    ELSE <<C13_UpTo(line, " ")>> \o C13_Fields(C13_After(line, " "))

\* the U field the rule of the tool table prescribes for a ToolMaxRPM
C13_ExpectedU(rpm, m) ==
    IF rpm = IntMinusOne THEN <<"U", "-", "1">>
    ELSE IF IsInt(rpm) /\ rpm # IntZero /\ rpm # m
    THEN <<"U">> \o Tail(rpm)
    ELSE <<"U", "0">>

C13_FixedFields ==
    (2 :> "P") @@ (3 :> "X") @@ (4 :> "Y") @@ (5 :> "Z") @@ (6 :> "A") @@
    (7 :> "B") @@ (8 :> "C") @@ (10 :> "V") @@ (11 :> "W") @@ (13 :> "I") @@
    (14 :> "J") @@ (15 :> "Q")

C13_LineOf(tool, m, line, f) ==
    /\ Len(f) >= 16
    /\ f[1] = <<"T">> \o NatToText(tool.ToolNumber)
    /\ \A i \in DOMAIN C13_FixedFields : f[i] = <<C13_FixedFields[i], "0">>
    /\ f[9] = C13_ExpectedU(tool.ToolMaxRPM, m)
    /\ Len(f[12]) > 1 /\ Head(f[12]) = "D"
    /\ Head(f[16]) = ";"
    /\ SubSeq(line, Len(line) - Len(PyStr(tool.ToolName)), Len(line))
          = <<";">> \o PyStr(tool.ToolName)

\* C13: every line generate_tool_table returns has the form
\* T<number> P0 X0 Y0 Z0 A0 B0 C0 <U-field> V0 W0 D<diameter> I0 J0 Q0 ;<name>
\* for its record, and its U field is U-1 when ToolMaxRPM is -1, U<ToolMaxRPM>
\* when ToolMaxRPM is neither 0 nor the machine max RPM, and U0 otherwise.
C13_TableLineForm ==
    (tool_table.called /\ ~tool_table.raised) =>
        /\ Len(tool_table.lines) = Len(fetch_tool_data(tools))
        /\ \A i \in 1..Len(tool_table.lines) :
              C13_LineOf(fetch_tool_data(tools)[i], config_max_rpm,
                         tool_table.lines[i], C13_Fields(tool_table.lines[i]))

C13_Witness ==
    /\ tool_table.called /\ ~tool_table.raised
    /\ Len(tool_table.lines) = 2
    /\ tools[1].ToolMaxRPM = IntMinusOne
    /\ tools[2].ToolMaxRPM = Rpm18000
    /\ config_max_rpm = DefaultMaxRpm
    /\ C13_Fields(tool_table.lines[2])[9] = <<"U", "1", "8", "0", "0", "0">>

\* the diameter in inches of a diameter text, 0 when the text is missing or
\* holds no valid number
C14_Inches(d) ==
    IF ~Truthy(d) \/ ~FloatValid(SearchNumber(RemoveCommas(d))) THEN 0
    ELSE IF HasMm(d)
    THEN RoundDiv(PyFloat(SearchNumber(RemoveCommas(d))) * 10, 254)
    ELSE PyFloat(SearchNumber(RemoveCommas(d)))

\* C14: generate_tool_table returns a line for every record, whose D field is
\* the diameter in inches with 4 decimals: a text with mm is divided by 25.4,
\* an inch or unitless text passes through, and a missing or unparseable
\* text gives D0.0000 without an error.
C14_DiameterField ==
    tool_table.called =>
        /\ ~tool_table.raised
        /\ Len(tool_table.lines) = Len(fetch_tool_data(tools))
        /\ \A i \in 1..Len(tool_table.lines) :
              C13_Fields(tool_table.lines[i])[12]
                 = <<"D">> \o FourDecimals(C14_Inches(tools[i].ToolDiameter))

\* the index of the first line break of the page after piece i
C15_RowEnd(text, i) ==
    CHOOSE j \in (i + 1)..Len(text) :
        text[j] = "\n" /\ \A k \in (i + 1)..(j - 1) : text[k] # "\n"

\* what the row with the given label shows: the pieces between the label
\* with its separator and the end of the line
C15_RowValue(text, label) ==
    SubSeq(text, FirstIndex(text, label) + 2,
           C15_RowEnd(text, FirstIndex(text, label)) - 1)

\* C15: for a record whose ToolMaxRPM is -1 the Max RPM row of its wiki page
\* shows N/A and its tool-table line carries U-1, so that neither output
\* shows a numeric RPM.
C15_SentinelRpm ==
    /\ (page.called /\ ~page.raised
            /\ tools[page.nr].ToolMaxRPM = IntMinusOne) =>
           C15_RowValue(page.text, "'''Max RPM'''") = NAText
    /\ (tool_table.called /\ ~tool_table.raised) =>
           \A i \in 1..Len(tool_table.lines) :
               tools[i].ToolMaxRPM = IntMinusOne =>
                   C13_Fields(tool_table.lines[i])[9] = <<"U", "-", "1">>

C15_Witness ==
    /\ page.called /\ ~page.raised
    /\ tools[page.nr].ToolMaxRPM = IntMinusOne
    /\ "'''Max RPM'''" \in Range(page.text)
    /\ "[ToolMaxRPM]" \notin Range(page.text)

C17_Labels ==
    [CornerRadius  |-> "'''Corner Radius'''",
     CuttingRadius |-> "'''Cutting Radius'''",
     TaperAngle    |-> "'''Taper Angle'''",
     TaperDiameter |-> "'''Taper Diameter'''"]

\* the shape parameters of a row hold a non-empty value for the parameter
C17_Holds(tool, p) ==
    /\ tool.ShapeParameter.kind = "json"
    /\ p \in DOMAIN tool.ShapeParameter.m
    /\ tool.ShapeParameter.m[p] \notin {None, <<>>}

\* C17: in the wiki page of a record the row of Corner Radius, Cutting
\* Radius, Taper Angle or Taper Diameter is present exactly when the shape
\* parameters hold a non-empty value for it; otherwise its placeholder is
\* replaced by the empty string and no row is inserted.
C17_OptionalRows ==
    (page.called /\ ~page.raised) =>
        /\ \A p \in DOMAIN C17_Labels :
              (C17_Labels[p] \in Range(page.text)) <=> C17_Holds(tools[page.nr], p)
        /\ \A t \in {"[INSERT_CORNERRADIUS]", "[INSERT_CUTTINGRADIUS]",
                       "[INSERT_TAPERANGLE]", "[INSERT_TAPERDIAMETER]"} :
              t \notin Range(page.text)

C17_Witness ==
    /\ page.called /\ ~page.raised
    /\ C17_Holds(tools[page.nr], "CornerRadius")
    /\ "CuttingRadius" \in DOMAIN tools[page.nr].ShapeParameter.m
    /\ C15_RowValue(page.text, C17_Labels["CornerRadius"])
          = <<"1", "/", "8", "\"">>
    /\ C17_Labels["CuttingRadius"] \notin Range(page.text)

\* the rows of the table of the page and the column each one shows
C18_RowLabels ==
    [ToolType         |-> "'''Tool Type'''",
     ToolShankSize    |-> "'''Shank Size'''",
     ToolDiameter     |-> "'''Diameter'''",
     Flutes           |-> "'''Flutes (FL)'''",
     OAL              |-> "'''Overall Length (OAL)'''",
     LOC              |-> "'''Length of Cut (LOC)'''",
     ToolMaxRPM       |-> "'''Max RPM'''",
     ToolMaterial     |-> "'''Material'''",
     ToolCoating      |-> "'''Coating'''",
     PartNumber       |-> "'''Part Number'''",
     ManufacturerName |-> "'''Manufacturer'''"]

\* C18: for every record, also one with missing or empty fields (ToolMaxRPM
\* among them), generate_wiki_page returns markup without raising, in which
\* no field placeholder is left and every missing or empty field other than
\* the image file name is rendered as N/A.
C18_PageForEveryRecord ==
    page.called =>
        /\ ~page.raised
        /\ \A i \in 1..Len(Placeholders) :
              Token(Placeholders[i]) \notin Range(page.text)
        /\ \A f \in DOMAIN C18_RowLabels :
              tools[page.nr][f] \in {None, <<>>} =>
                  C15_RowValue(page.text, C18_RowLabels[f]) = NAText

(***************************************************************************)
(* Properties of the text utilities                                        *)
(***************************************************************************)
\* the text holds a number: its first digit-or-dot run has a digit and at
\* most one dot
C16_HoldsNumber(x) ==
    /\ Truthy(x)
    /\ LET run == TakeWhile(DropWhile(RemoveCommas(x), TextChars \ NumChars),
                            NumChars)
       IN  (\E i \in 1..Len(run) : run[i] \in DigitChars)
              /\ CountDots(run) <= 1

\* C16: for every input text extract_numeric returns a number or None and
\* never raises; it returns None whenever the text holds no valid number
\* (empty text, text without digits, a digit-or-dot run such as "." or
\* "1.2.3" that is not a number).
C16_NeverRaises ==
    (out.called /\ out.op = "extract_numeric") =>
        /\ ~out.raised
        /\ ~C16_HoldsNumber(arg) => out.value.isnone

C19_Forbidden == {"<", ">", ":", "\"", "/", "\\", "|", "?", "*", "\n", "\r"}

C19_Whitespace == {" ", "\t", "\n", "\r"}

\* C19: sanitize_filename is idempotent, and its result holds none of the
\* characters < > : " / \ | ? *, newline or carriage return and has no
\* leading or trailing white space.
C19_Idempotent ==
    (out.called /\ out.op = "sanitize_filename") =>
        /\ out.again = out.value
        /\ \A i \in 1..Len(out.value) : out.value[i] \notin C19_Forbidden
        /\ out.value # <<>> =>
              /\ out.value[1] \notin C19_Whitespace
              /\ out.value[Len(out.value)] \notin C19_Whitespace

C19_Witness ==
    /\ out.called /\ out.op = "sanitize_filename"
    /\ arg = <<"\"", "/", " ">>
    /\ out.value = <<"i", "n", "_">>
    /\ out.again = out.value

C20_External ==
    {"Diameter", "Length", "CuttingEdgeHeight", "Material", "ShankDiameter"}

C20_Internal == {"ToolDiameter", "OAL", "LOC", "ToolMaterial", "ToolShankSize"}

\* C20: for each of the five external names to_sqlite followed by to_json
\* returns the name, for each of the five internal names to_json followed by
\* to_sqlite returns the name, and a name in neither set is returned
\* unchanged by both directions.
C20_RoundTrip ==
    (out.called /\ out.op = "map_column_names") =>
        /\ (arg \in C20_External /\ out.direction = "to_sqlite") =>
              (out.value \in C20_Internal /\ out.back = arg)
        /\ (arg \in C20_Internal /\ out.direction = "to_json") =>
              (out.value \in C20_External /\ out.back = arg)
        /\ arg \notin (C20_External \cup C20_Internal) => out.value = arg

C20_Witness ==
    /\ out.called /\ out.op = "map_column_names"
    /\ arg = "Length" /\ out.direction = "to_sqlite"
    /\ out.value = "OAL" /\ out.back = "Length"

\* the text before the unit the formatter appended
C22_Body(text, quotes) ==
    IF quotes THEN SubSeq(text, 1, Len(text) - 1)
    ELSE SubSeq(text, 1, Len(text) - 3)

\* N/D with 0 < N < D <= 64 in lowest terms
C22_ProperFraction(t) ==
    /\ IsDigit(C13_UpTo(t, "/")) /\ IsDigit(C13_After(t, "/"))
    /\ LET n == DigitsToNat(C13_UpTo(t, "/"))
           d == DigitsToNat(C13_After(t, "/"))
       IN  /\ 0 < n /\ n < d /\ d <= 64
           /\ \A k \in 2..64 : ~(n % k = 0 /\ d % k = 0)

\* a bare integer, N/D, or W-N/D with W >= 1
C22_WellFormed(body) ==
    IF "/" \notin Range(body) THEN IsDigit(body)
    ELSE IF "-" \in Range(body)
    THEN /\ IsDigit(C13_UpTo(body, "-"))
         /\ DigitsToNat(C13_UpTo(body, "-")) >= 1
         /\ C22_ProperFraction(C13_After(body, "-"))
    ELSE C22_ProperFraction(body)

\* C22: with fraction conversion on, format_measurement renders an inch
\* value as a bare integer, as N/D or as W-N/D with 0 < N < D <= 64 in lowest
\* terms; it never emits a fraction with denominator 1 such as 0/1 or 1/1.
C22_FractionForm ==
    (out.called /\ out.op = "format_measurement" /\ out.convert
        /\ ParsesAsMeasurement(arg)
        /\ UnitOf(arg) \in {InText, QuoteText}) =>
        C22_WellFormed(C22_Body(out.text, out.quotes))

\* the numeric portion of a measurement text and the unit after it
C21_NumberPart(s) == PyStrip(TakeWhile(s, DigitChars \cup {".", "/", "-", " "}))

C21_UnitPart(s) == DropWhile(s, DigitChars \cup {".", "/", "-", " "})

C21_Decimal(t) ==
    /\ t # <<>> /\ \A i \in 1..Len(t) : t[i] \in NumChars
    /\ IsDigit(C13_UpTo(t, "."))
    /\ ("." \in Range(t) => IsDigit(C13_After(t, ".")))

C21_Fraction(t) ==
    /\ IsDigit(C13_UpTo(t, "/")) /\ IsDigit(C13_After(t, "/"))
    /\ DigitsToNat(C13_After(t, "/")) > 0

C21_Separator(t) == IF "-" \in Range(t) THEN "-" ELSE " "

C21_Mixed(t) ==
    /\ IsDigit(C13_UpTo(t, C21_Separator(t)))
    /\ C21_Fraction(C13_After(t, C21_Separator(t)))

\* an integer, a decimal, a simple or a mixed fraction, then in, ", mm or
\* nothing
C21_WellFormed(s) ==
    /\ IsText(s) /\ s # <<>>
    /\ C21_UnitPart(s) \in {<<>>, InText, QuoteText, MmText}
    /\ LET t == C21_NumberPart(s)
       IN  C21_Decimal(t) \/ C21_Fraction(t) \/ C21_Mixed(t)

C21_FractionValue(t) ==
    (DigitsToNat(C13_UpTo(t, "/")) * 200000) \div DigitsToNat(C13_After(t, "/"))

\* the value a well-formed text denotes, in units of 1/200000
C21_Value(s) ==
    LET t == C21_NumberPart(s)
    IN  IF "/" \notin Range(t) THEN PyFloat(t)
        ELSE IF C21_Fraction(t) THEN C21_FractionValue(t)
        ELSE DigitsToNat(C13_UpTo(t, C21_Separator(t))) * 200000
                 + C21_FractionValue(C13_After(t, C21_Separator(t)))

\* half a unit of the last printed place: 4 places for inches, 3 for mm
C21_Precision(s) == IF C21_UnitPart(s) = MmText THEN 100 ELSE 10

\* C21: for every well-formed measurement text s, parsing s and formatting
\* the parsed value yields a text that denotes the same numeric value as s,
\* within the formatter's rounding precision.
C21_RoundTrip ==
    (out.called /\ out.op = "parse_format" /\ C21_WellFormed(arg)) =>
        /\ ~out.raised
        /\ Abs(NumOf(out.text) - C21_Value(arg)) <= C21_Precision(arg)

(***************************************************************************)
(* fixtool.py: update_master_file                                          *)
(*                                                                         *)
(* A line is the sequence of its whitespace-separated parts; a part is a   *)
(* sequence of pieces, its leading letter and sign each a piece of their   *)
(* own.  The column padding of the written line is not represented.        *)
(***************************************************************************)
StartsWith(p, prefix) ==
    Len(p) >= Len(prefix) /\ SubSeq(p, 1, Len(prefix)) = prefix

exceptions == {<<"T", "100">>}

ZPlus == <<"Z", "+">>

ZDefault == <<"Z", "+", "0.000000">>

UDefault == <<"U", "0">>

\* next((p for p in master_parts if p.startswith("Z+")), None), then the
\* default when nothing was found
z_value(master_parts) ==
    LET found == {i \in 1..Len(master_parts) :
                     StartsWith(master_parts[i], ZPlus)}
    IN  IF found = {} THEN ZDefault
        ELSE master_parts[CHOOSE i \in found : \A j \in found : i <= j]

\* the line written for a tool that master and updater both hold
MergedLine(master_parts, updater_info) ==
    <<master_parts[1], master_parts[2], z_value(master_parts),
      PyStrip(updater_info["diameter"]),
      DictGet(updater_info, "u_value", UDefault), updater_info["remark"]>>

\* the line written for a tool the master lacks
NewEntry(tool, updater_info) ==
    <<tool, <<"P", "0">>, ZDefault, updater_info["diameter"],
      DictGet(updater_info, "u_value", UDefault), updater_info["remark"]>>

\* KeyError on master_data[tool] for an exception tool, IndexError on
\* master_parts[1] for a line of one part
MergeRaises(master_data, updater_data) ==
    \/ \E tool \in (DOMAIN updater_data) \cap exceptions :
          tool \notin DOMAIN master_data
    \/ \E tool \in ((DOMAIN updater_data) \ exceptions) \cap DOMAIN master_data :
          Len(master_data[tool]) < 2

\* update_master_file(master_data, updater_data): [raised, data]
update_master_file(master_data, updater_data) ==
    IF MergeRaises(master_data, updater_data)
    THEN [raised |-> TRUE, data |-> EmptyDict]
    ELSE [raised |-> FALSE,
          data |->
            [tool \in (DOMAIN updater_data)
                          \cup ((DOMAIN master_data) \cap exceptions) |->
                IF tool \notin DOMAIN updater_data \/ tool \in exceptions
                THEN master_data[tool]
                ELSE IF tool \in DOMAIN master_data
                THEN MergedLine(master_data[tool], updater_data[tool])
                ELSE NewEntry(tool, updater_data[tool])]]

MergeTools == {<<"T", "1">>, <<"T", "2">>, <<"T", "100">>}

OldRemark == <<";", "old">>

\* master lines with a positive, a negative and no Z offset
MasterLines(tool) ==
    {<<tool, <<"P", "1">>, <<"Z", "+", "1.250000">>, <<"D", "+", "0.250000">>,
       UDefault, OldRemark>>,
     <<tool, <<"P", "1">>, <<"Z", "-", "1.250000">>, <<"D", "+", "0.250000">>,
       UDefault, OldRemark>>,
     <<tool, <<"P", "1">>, <<"D", "+", "0.250000">>, OldRemark>>}

UpdaterInfos ==
    {("diameter" :> <<"D", "+", "0.125000">>) @@ ("remark" :> <<";", "new">>)
        @@ ("pocket" :> <<"1">>),
     ("diameter" :> <<"D", "+", "0.500000">>) @@ ("remark" :> <<>>)
        @@ ("pocket" :> <<"1">>) @@ ("u_value" :> <<"U", "9000">>)}

MasterTables ==
    UNION {{m \in [S -> UNION {MasterLines(t) : t \in S}] :
               \A t \in S : m[t] \in MasterLines(t)} : S \in SUBSET MergeTools}

UpdaterTables == UNION {[S -> UpdaterInfos] : S \in SUBSET MergeTools}

InitMerge ==
    /\ tools = EmptyDict
    /\ config_max_rpm = DefaultMaxRpm
    /\ tool_table = NoCall
    /\ page = NoCall
    /\ arg \in [master_data : MasterTables, updater_data : UpdaterTables]
    /\ out = NoCall
    /\ fctb = EmptyDirs
    /\ ver = V10
    /\ mapped = NoCall
    /\ gen = NoCall
    /\ images = EmptyDict
    /\ library = [v \in Versions |-> {}]
    /\ pc = "idle"
    /\ queue = <<>>
    /\ idx = 0
    /\ log = <<>>
    /\ result = NoResult
    /\ tool_tbl = EmptyDict
    /\ tool_props = EmptyDict
    /\ call = NoCall

\* update_master_file(master_data, updater_data)
MergeCall ==
    /\ ~out.called
    /\ LET merged == update_master_file(arg.master_data, arg.updater_data)
       IN  out' = [called |-> TRUE, op |-> "update_master_file",
                   raised |-> merged.raised, data |-> merged.data]
    /\ UNCHANGED <<arg, textFrame>>

NextMerge == MergeCall

SpecMerge == InitMerge /\ [][NextMerge]_vars

(***************************************************************************)
(* Properties of the merge                                                 *)
(***************************************************************************)
\* the Z part of a line, None when it has none
C25_ZOf(line) ==
    LET zs == {i \in 1..Len(line) : StartsWith(line[i], <<"Z">>)}
    IN  IF zs = {} THEN None ELSE line[CHOOSE i \in zs : TRUE]

\* C25: for every tool number present both in the master table and in the
\* update list and not on the exception list, the merged line carries the Z
\* offset of the master line unchanged, whatever its sign and value; the
\* diameter, the U field and the remark are the update's.
C25_ZOffsetKept ==
    (out.called /\ out.op = "update_master_file" /\ ~out.raised) =>
        \A tool \in ((DOMAIN arg.master_data) \cap DOMAIN arg.updater_data)
                        \ exceptions :
            /\ C25_ZOf(arg.master_data[tool]) # None =>
                   C25_ZOf(out.data[tool]) = C25_ZOf(arg.master_data[tool])
            /\ out.data[tool][4] = arg.updater_data[tool]["diameter"]
            /\ out.data[tool][6] = arg.updater_data[tool]["remark"]

\* C26: the merge leaves the line of each exception tool exactly as it is in
\* the master table, whether or not the update list names that tool, and it
\* completes without error also when the update list names an exception
\* tool that the master table lacks.
C26_ExceptionsKept ==
    (out.called /\ out.op = "update_master_file") =>
        /\ ~out.raised
        /\ \A tool \in exceptions \cap DOMAIN arg.master_data :
               out.data[tool] = arg.master_data[tool]

(***************************************************************************)
(* main.py: hmac_validation_middleware                                     *)
(*                                                                         *)
(* One server process handles the requests of arg as coroutines on one     *)
(* event loop: a handler runs without interruption from one await to the   *)
(* next, so the steps below are the stretches between awaits.  out holds   *)
(* the process state: HMAC_ENABLED, USED_NONCES, and for every request its *)
(* position, its response status (0 while unanswered) and whether it was   *)
(* handed to call_next.                                                    *)
(***************************************************************************)
\* a parameter the request lacks: query_params.get gives None, which is falsy
Absent == ""

SECRET_KEY == "secret"

\* hmac.new(key, message, sha256).hexdigest(): a digest is equal to another
\* exactly when key and message are
generate_hmac(url, secret_key) == <<"hmac", secret_key, url>>

verify_hmac(url, provided_signature) ==
    generate_hmac(url, SECRET_KEY) = provided_signature

\* path, then the parameters without the signature
full_url(req) == <<req.path, req.timestamp, req.nonce>>

Requests == {"r1", "r2"}

Nonces == {"n1", "n2"}

\* inside the time window, outside it, no ISO text, ISO text with a UTC offset
Timestamps == {"now", "stale", "malformed", "aware"}

Unsigned(method, body, timestamp, nonce) ==
    [method |-> method, body |-> body, path |-> "/tools",
     timestamp |-> timestamp, nonce |-> nonce]

Signed(req, signature) ==
    [method |-> req.method, body |-> req.body, path |-> req.path,
     timestamp |-> req.timestamp, nonce |-> req.nonce,
     signature |-> signature]

RequestInputs ==
    {Signed(u, sig) :
        u \in {Unsigned(m[1], m[2], t, n) :
                  m \in {<<"GET", "none">>, <<"POST", "json">>,
                          <<"POST", "bad">>},
                  t \in Timestamps \cup {Absent}, n \in Nonces \cup {Absent}},
        sig \in {Absent, "own", "forged"}}

\* the signature the request carries
SignatureOf(req) ==
    IF req.signature = Absent THEN Absent
    ELSE generate_hmac(full_url(req),
                       IF req.signature = "own" THEN SECRET_KEY ELSE "other")

\* nonce in USED_NONCES
NonceUsed(nonce, used) == nonce \in used

\* the stretch from the signature check to call_next: [status, used], status
\* 0 when the request goes on to call_next
Validation(req, used) ==
    IF SignatureOf(req) = Absent THEN [status |-> 403, used |-> used]
    ELSE IF req.timestamp = Absent \/ req.nonce = Absent
    THEN [status |-> 403, used |-> used]
    ELSE IF req.timestamp = "malformed" THEN [status |-> 403, used |-> used]
    ELSE IF req.timestamp = "aware" THEN [status |-> 500, used |-> used]
    ELSE IF req.timestamp = "stale" THEN [status |-> 403, used |-> used]
    ELSE IF NonceUsed(req.nonce, used) THEN [status |-> 403, used |-> used]
    ELSE IF ~verify_hmac(full_url(req), SignatureOf(req))
    THEN [status |-> 403, used |-> used \cup {req.nonce}]
    ELSE [status |-> 0, used |-> used \cup {req.nonce}]

InitAuth ==
    /\ tools = EmptyDict
    /\ config_max_rpm = DefaultMaxRpm
    /\ tool_table = NoCall
    /\ page = NoCall
    /\ arg \in [Requests -> RequestInputs]
    /\ out \in [HMAC_ENABLED : BOOLEAN, USED_NONCES : {{}},
                 pc : {[r \in Requests |-> "start"]},
                 response : {[r \in Requests |-> 0]}, passed : {{}}]
    /\ fctb = EmptyDirs
    /\ ver = V10
    /\ mapped = NoCall
    /\ gen = NoCall
    /\ images = EmptyDict
    /\ library = [v \in Versions |-> {}]
    /\ pc = "idle"
    /\ queue = <<>>
    /\ idx = 0
    /\ log = <<>>
    /\ result = NoResult
    /\ tool_tbl = EmptyDict
    /\ tool_props = EmptyDict
    /\ call = NoCall

\* HMAC validation disabled: straight to call_next
Disabled(r) ==
    /\ ~out.HMAC_ENABLED /\ out.pc[r] = "start"
    /\ out' = [out EXCEPT !.pc[r] = "endpoint", !.passed = @ \cup {r}]
    /\ UNCHANGED <<arg, textFrame>>

\* await request.body() of a POST, then json.loads
Body(r) ==
    /\ out.HMAC_ENABLED /\ out.pc[r] = "start" /\ arg[r].method = "POST"
    /\ out' = IF arg[r].body = "bad"
              THEN [out EXCEPT !.pc[r] = "done", !.response[r] = 400]
              ELSE [out EXCEPT !.pc[r] = "validate"]
    /\ UNCHANGED <<arg, textFrame>>

\* from the signature check up to the return or the await of call_next
Validate(r) ==
    /\ out.HMAC_ENABLED
    /\ \/ out.pc[r] = "validate"
       \/ out.pc[r] = "start" /\ arg[r].method = "GET"
    /\ LET v == Validation(arg[r], out.USED_NONCES)
       IN  out' = IF v.status = 0
                  THEN [out EXCEPT !.pc[r] = "endpoint", !.USED_NONCES = v.used,
                                   !.passed = @ \cup {r}]
                  ELSE [out EXCEPT !.pc[r] = "done", !.USED_NONCES = v.used,
                                   !.response[r] = v.status]
    /\ UNCHANGED <<arg, textFrame>>

\* call_next returns the endpoint's response
Endpoint(r) ==
    /\ out.pc[r] = "endpoint"
    /\ out' = [out EXCEPT !.pc[r] = "done", !.response[r] = 200]
    /\ UNCHANGED <<arg, textFrame>>

NextAuth ==
    \E r \in Requests : Disabled(r) \/ Body(r) \/ Validate(r) \/ Endpoint(r)

SpecAuth == InitAuth /\ [][NextAuth]_vars

(***************************************************************************)
(* Properties of the middleware                                            *)
(***************************************************************************)
\* the request carries the nonce n
C27_Carries(r, n) == arg[r].body # "bad" /\ arg[r].nonce = n /\ n # Absent

\* at most one request of each nonce is handed to call_next
C27_AtMostOnePassed ==
    out.HMAC_ENABLED =>
        \A r1 \in out.passed, r2 \in out.passed :
            (r1 # r2) => arg[r1].nonce # arg[r2].nonce

\* C27: with HMAC validation enabled, across any interleaving of requests
\* handled by one server process, at most one request carrying a given nonce
\* is passed on to an endpoint; every other request with that nonce is
\* answered 403.
C27_OneRequestPerNonce ==
    /\ C27_AtMostOnePassed
    /\ out.HMAC_ENABLED =>
           \A p \in out.passed, r \in Requests :
               (r # p /\ C27_Carries(r, arg[p].nonce) /\ out.pc[r] = "done") =>
                   out.response[r] = 403

\* C28: a nonce is recorded as used only by a request that passes signature
\* verification, so a request rejected for an invalid signature does not
\* keep a later, correctly signed request with the same nonce from being
\* accepted.
C28_RecordedAfterVerification ==
    out.HMAC_ENABLED =>
        \A n \in out.USED_NONCES :
            \E r \in out.passed : arg[r].nonce = n

=============================================================================
